---- MODULE Spec2Model ----
(***************************************************************************)
(* The recursive expression generators of cedar-policy-generators          *)
(* (src/cedar-policy-generators/src/expr.rs) as a call-stack machine.      *)
(*                                                                         *)
(* A generator call is a frame; a frame runs the production the oracle     *)
(* selected as a list of instructions (sub-calls, draws, loop heads, map   *)
(* inserts, the final node construction).  The oracle `u` is its number of *)
(* remaining bytes plus a nondeterministic choice for every draw: a draw   *)
(* on an exhausted oracle yields the fixed default of the arbitrary crate. *)
(* An expression is kept as its root kind and the set of tracked node      *)
(* kinds and defects that occur anywhere inside it.                        *)
(***************************************************************************)
EXTENDS Naturals, Sequences, FiniteSets, TLC

VARIABLES settings, ext_funcs, entry, stack, ulen, unknown_pool, result, unk_drew,
          placeholders

vars == <<settings, ext_funcs, entry, stack, ulen, unknown_pool, result, unk_drew, placeholders>>

(***************************** bounds **************************************)
\* largest settings.max_depth and largest top-level max_depth explored
MaxDepthBound == 2
\* settings.max_width, the iteration cap of every arbitrary_loop
MaxWidthBound == 2
\* largest number of oracle bytes at the start of a run
MaxULen == 12

(************************ program constants ********************************)
\* `u.len() < 10` : the remaining-bytes threshold of every type dispatch
TerminalThreshold == 10
\* `u.int_in_range::<usize>(0..=4)` : largest deliberately wrong arity
MaxArbitraryArity == 4

(****************************** types **************************************)
\* abac::Type.  A type is a sequence of tags: <<"Set">> is Set(None),
\* <<"Set">> \o t is Set(Some(t)).
ExtensionTypes == {<<"IPAddr">>, <<"Decimal">>, <<"DateTime">>, <<"Duration">>}

NonExtensionAtoms == {<<"Bool">>, <<"Long">>, <<"String">>, <<"Entity">>, <<"Record">>}

set_of(t) == <<"Set">> \o t

IsSetType(t) == Len(t) >= 1 /\ t[1] = "Set"

\* the values `u.arbitrary::<Type>()` may return
ArbitraryTypes == NonExtensionAtoms \cup ExtensionTypes \cup {<<"Set">>, set_of(<<"Long">>)}

\* the values `Type::arbitrary_nonextension(u)` may return
ArbitraryNonextensionTypes == NonExtensionAtoms \cup {<<"Set">>, set_of(<<"Long">>)}

\* the semantic types a top-level call is made for
TargetTypes == ArbitraryTypes \cup {set_of(<<"IPAddr">>)}

(****************************** oracle *************************************)
\* arbitrary::Unstructured.  Every draw takes one byte while bytes remain.
Consume(n) == IF n > 0 THEN n - 1 ELSE 0

\* the values a draw over S may return: any while bytes remain, the default
\* (what the zero byte decodes to) once the oracle is exhausted
DrawFrom(n, S, dflt) == IF n = 0 THEN {dflt} ELSE S

\* u.ratio(a, b): x in 1..=b is drawn and x <= a returned; exhausted: x = 1
Ratio(n) == DrawFrom(n, {TRUE, FALSE}, TRUE)

\* u.arbitrary::<bool>(), also the keep-going decision of arbitrary_loop
ArbitraryBool(n) == DrawFrom(n, {TRUE, FALSE}, FALSE)

RECURSIVE SumWeights(_)
SumWeights(menu) == IF menu = <<>> THEN 0 ELSE Head(menu).w + SumWeights(Tail(menu))

RECURSIVE WeightedIndexFrom(_, _, _)
WeightedIndexFrom(menu, x, i) ==
  IF i >= Len(menu) \/ x < menu[i].w THEN i
  ELSE WeightedIndexFrom(menu, x - menu[i].w, i + 1)

\* gen!: the production whose cumulative weight interval holds the draw x
WeightedIndex(menu, x) == WeightedIndexFrom(menu, x, 1)

\* gen!(u, w1 => p1, ...): one draw in 0..sum-1 selects one production
Gen(n, menu) ==
  { menu[WeightedIndex(menu, x)].p : x \in DrawFrom(n, 0..(SumWeights(menu) - 1), 0) }

\* uniform!(u, p1, ...): gen! with all weights 1
Uniform(n, prods) == Gen(n, [i \in 1..Len(prods) |-> [w |-> 1, p |-> prods[i]]])

(****************************** schema *************************************)
\* schema.entity_types
EntityTypes == <<"User", "Photo">>

\* schema.principal_types, schema.resource_types, schema.actions_eids
PrincipalTypes == <<"User">>

ResourceTypes == <<"Photo">>

ActionsEids == <<"view">>

\* the record shapes the schema declares: attributes in BTreeMap (key) order
RecordDecls ==
  [ Meta |-> [ attributes |-> << [name |-> "age", ty |-> <<"Long">>, required |-> FALSE],
                                [name |-> "name", ty |-> <<"String">>, required |-> TRUE] >>,
               additional_attributes |-> TRUE ],
    Open |-> [ attributes |-> <<>>, additional_attributes |-> TRUE ],
    Closed |-> [ attributes |-> << [name |-> "age", ty |-> <<"Long">>, required |-> FALSE],
                                  [name |-> "tags", ty |-> <<"Set", "String">>, required |-> TRUE] >>,
                 additional_attributes |-> FALSE ] ]

\* the common types the schema defines (lookup_common_type)
CommonTypes == [ Meta |-> <<"RecDecl", "Meta">>, Count |-> <<"Long">> ]

lookup_common_type(name) == IF name \in DOMAIN CommonTypes THEN <<CommonTypes[name]>> ELSE <<>>

\* schema.attributes: every (entity type, attribute name, declared type)
SchemaAttributes ==
  << [entity |-> "User", name |-> "name", ty |-> <<"String">>],
     [entity |-> "User", name |-> "age", ty |-> <<"CommonTypeRef", "Count">>],
     [entity |-> "Photo", name |-> "owner", ty |-> <<"EntityOrCommon", "User">>],
     [entity |-> "Photo", name |-> "meta", ty |-> <<"EntityOrCommon", "Meta">>] >>

\* the tag type each entity type declares (<<>>: no tags)
EntityTags == [ User |-> <<"String">>, Photo |-> <<>> ]

entity_type_name_to_schema_type(name) == <<"Entity", name>>

\* record_schematype_with_attr: Record{ attr_name: attr_type (required) },
\* additional_attributes = true
record_schematype_with_attr(attr_name, attr_type) == <<"Rec1", attr_name>> \o attr_type

\* a schema type with its top-level common-type / entity-or-common
\* references looked through (as the schema's helper queries compare types)
RECURSIVE ResolvedSchemaType(_)
ResolvedSchemaType(ty) ==
  IF ty[1] = "CommonTypeRef" \/ ty[1] = "EntityOrCommon"
  THEN IF lookup_common_type(ty[2]) # <<>>
       THEN ResolvedSchemaType(lookup_common_type(ty[2])[1])
       ELSE <<"Entity", ty[2]>>
  ELSE ty

\* the schema type a semantic type stands for in the helper queries
\* (<<>>: none; Entity and Set(None) match by kind)
SchemaTypeMatches(sty, ty) ==
  LET r == ResolvedSchemaType(sty) IN
  CASE ty = <<"Bool">> -> r = <<"Boolean">>
    [] ty = <<"Long">> -> r = <<"Long">>
    [] ty = <<"String">> -> r = <<"String">>
    [] ty = <<"Entity">> -> r[1] = "Entity"
    [] ty = <<"Record">> -> r[1] = "RecDecl" \/ r[1] = "Rec1"
    [] IsSetType(ty) -> r[1] = "Set"
    [] OTHER -> r[1] = "Extension"

\* schema.arbitrary_attr(u): the (name, type) pairs it may return
arbitrary_attr == { SchemaAttributes[i] : i \in DOMAIN SchemaAttributes }

\* schema.arbitrary_attr_for_schematype(ty, u): the entity types that carry
\* an attribute of the declared type; empty: the query fails (EmptyChoose)
arbitrary_attr_for_schematype(ty) ==
  { a.entity : a \in { x \in arbitrary_attr : ResolvedSchemaType(x.ty) = ResolvedSchemaType(ty) } }

\* schema.arbitrary_attr_for_type(ty, u)
arbitrary_attr_for_type(ty) ==
  { a.entity : a \in { x \in arbitrary_attr : SchemaTypeMatches(x.ty, ty) } }

\* schema.arbitrary_entity_type_with_tag_schematype(ty, u)
arbitrary_entity_type_with_tag_schematype(ty) ==
  { e \in DOMAIN EntityTags :
      EntityTags[e] # <<>> /\ ResolvedSchemaType(EntityTags[e]) = ResolvedSchemaType(ty) }

\* schema.arbitrary_entity_type_with_tag_type(ty, u)
arbitrary_entity_type_with_tag_type(ty) ==
  { e \in DOMAIN EntityTags : EntityTags[e] # <<>> /\ SchemaTypeMatches(EntityTags[e], ty) }

\* schema.try_into_schematype(ty, u): the schema types it may return; the
\* empty set is None (no schema type stands for an unconstrained set)
RECURSIVE try_into_schematype(_)
try_into_schematype(ty) ==
  CASE ty = <<"Bool">> -> {<<"Boolean">>}
    [] ty = <<"Long">> -> {<<"Long">>}
    [] ty = <<"String">> -> {<<"String">>}
    [] ty = <<"Entity">> -> { entity_type_name_to_schema_type(EntityTypes[i]) : i \in DOMAIN EntityTypes }
    [] ty = <<"Record">> -> {<<"RecDecl", "Open">>}
    [] ty = <<"IPAddr">> -> {<<"Extension", "ipaddr">>}
    [] ty = <<"Decimal">> -> {<<"Extension", "decimal">>}
    [] ty = <<"DateTime">> -> {<<"Extension", "datetime">>}
    [] ty = <<"Duration">> -> {<<"Extension", "duration">>}
    [] ty = <<"Set">> -> {}
    [] OTHER -> { <<"Set">> \o e : e \in try_into_schematype(Tail(ty)) }

\* the attributes and the additional_attributes flag of a Record schema type
RecordAttributes(ty) ==
  IF ty[1] = "Rec1"
  THEN << [name |-> ty[2], ty |-> SubSeq(ty, 3, Len(ty)), required |-> TRUE] >>
  ELSE RecordDecls[ty[2]].attributes

AdditionalAttributes(ty) ==
  IF ty[1] = "Rec1" THEN TRUE ELSE RecordDecls[ty[2]].additional_attributes

(*********************** constant pool, strings ****************************)
\* constant_pool.arbitrary_string_constant(u)
StringConstants == {"name", "c"}

\* the values `u.arbitrary::<String>()` may return
ArbitraryStrings == {"", "name", "age"}

(************************ extension functions ******************************)
\* AvailableExtensionFunctions when extensions are available: name,
\* parameter types, return type, constructor or not
AllExtensionFunctions ==
  << [name |-> "ip", parameter_types |-> << <<"String">> >>, return_ty |-> <<"IPAddr">>, is_constructor |-> TRUE],
     [name |-> "isIpv4", parameter_types |-> << <<"IPAddr">> >>, return_ty |-> <<"Bool">>, is_constructor |-> FALSE],
     [name |-> "decimal", parameter_types |-> << <<"String">> >>, return_ty |-> <<"Decimal">>, is_constructor |-> TRUE],
     [name |-> "lessThan", parameter_types |-> << <<"Decimal">>, <<"Decimal">> >>, return_ty |-> <<"Bool">>, is_constructor |-> FALSE],
     [name |-> "datetime", parameter_types |-> << <<"String">> >>, return_ty |-> <<"DateTime">>, is_constructor |-> TRUE],
     [name |-> "offset", parameter_types |-> << <<"DateTime">>, <<"Duration">> >>, return_ty |-> <<"DateTime">>, is_constructor |-> TRUE],
     [name |-> "duration", parameter_types |-> << <<"String">> >>, return_ty |-> <<"Duration">>, is_constructor |-> TRUE],
     [name |-> "toMilliseconds", parameter_types |-> << <<"Duration">> >>, return_ty |-> <<"Long">>, is_constructor |-> FALSE] >>

\* ext_funcs.arbitrary_all(u)
arbitrary_all(funcs) == { funcs[i] : i \in DOMAIN funcs }

\* ext_funcs.arbitrary_for_type(ty, u): exact match on the return type
arbitrary_for_type(funcs, ty) == { f \in arbitrary_all(funcs) : f.return_ty = ty }

\* ext_funcs.arbitrary_constructor_for_type(ty, u)
arbitrary_constructor_for_type(funcs, ty) ==
  { f \in arbitrary_for_type(funcs, ty) : f.is_constructor }

\* a call node names a registered function and has its declared arity
CallMatchesRegistry(funcs, name, nargs) ==
  \E f \in arbitrary_all(funcs) : f.name = name /\ Len(f.parameter_types) = nargs

\* the values `u.arbitrary::<ast::Name>()` may return
ArbitraryNames == {"ip", "f"}

(************************ expressions, results *****************************)
\* A generated ast::Expr / ast::Value: its root kind and the tracked kinds
\* (like, ext, unknown) and defects that occur anywhere in it.
Ok(kind, has) == [ok |-> TRUE, err |-> "", kind |-> kind, has |-> has]

\* Result::Err(Error::e); a panic is the error kind "panic"
Err(e) == [ok |-> FALSE, err |-> e, kind |-> "", has |-> {}]

NoValue == [ok |-> TRUE, err |-> "", kind |-> "none", has |-> {}]

\* the node kinds an expression is tracked for
TrackedKinds == {"like", "ext", "unknown"}

(***************************** instructions ********************************)
Ins(op, fn, ty, d, n, x, body) ==
  [op |-> op, fn |-> fn, ty |-> ty, d |-> d, n |-> n, x |-> x, body |-> body]

\* the first instruction of every frame: the function's entry
Enter == Ins("enter", "", <<>>, 0, 0, "", <<>>)

\* a call `self.fn(ty, d, u)?`
Call(fn, ty, d) == Ins("call", fn, ty, d, 0, "", <<>>)

\* a call whose type argument is the type drawn last (register t1), wrapped
\* by set_of when wrap = "set_of"
CallT(fn, d, wrap) == Ins("callT", fn, <<>>, d, 0, wrap, <<>>)

\* `u.arbitrary::<Type>()` (universe "any") or Type::arbitrary_nonextension
\* ("nonext") into register t1
DrawTy(universe) == Ins("drawTy", "", <<>>, 0, 0, universe, <<>>)

\* a draw whose value the expression summary does not keep; what names its
\* source, and an empty source fails the draw
Draw(what) == Ins("draw", "", <<>>, 0, 0, what, <<>>)

\* u.arbitrary_loop(.., Some(max_width), body): n iterations done so far
Loop(n, body) == Ins("loop", "", <<>>, 0, n, "", body)

\* the draw of a record key from the named source
Key(source) == Ins("key", "", <<>>, 0, 0, source, <<>>)

\* r.insert(key, value): origin says what the value was generated for
Insert(origin) == Ins("insert", "", <<>>, 0, 0, origin, <<>>)

\* Ok(node): the construction of the production's node
Ret(kind) == Ins("ret", "", <<>>, 0, 0, kind, <<>>)

\* Ok(get_attr(e', ..)) where e' is e, or {s: s} when e is the string
\* literal s (expr.rs 232-240)
RetWrapped(kind) == Ins("ret", "wrap", <<>>, 0, 0, kind, <<>>)

\* Ok(ast::Expr::call_extension_fn(name, args)) with nargs arguments
RetExt(name, nargs) == Ins("ret", name, <<>>, 0, nargs, "ext", <<>>)

\* Ok(what the call just made returned): the production is that call
RetLast == Ins("ret", "last", <<>>, 0, 0, "", <<>>)

\* an extension call on literals built in place as an argument:
\* mk_ext(name, vec![mk_str(..)]) with nargs arguments
Node(name, nargs) == Ins("node", name, <<>>, 0, nargs, "ext", <<>>)

\* the key of a declared attribute (no draw)
DeclaredKey(name) == Ins("key", name, <<>>, 0, 0, "declared", <<>>)

\* `if u.ratio(1, 2)? { body }`: an optional declared attribute
Maybe(body) == Ins("maybe", "", <<>>, 0, 0, "", body)

\* `if r.contains_key(name) || u.ratio(1, 2)? { body }`
MaybeUnlessPresent(name, body) == Ins("maybe", name, <<>>, 0, 0, "contains_key", body)

\* unknown_pool.alloc(target_type, v)
Alloc == Ins("alloc", "", <<>>, 0, 0, "", <<>>)

\* Err(e) / return Err(e)
Fail(e) == Ins("fail", "", <<>>, 0, 0, e, <<>>)

\* what a generator entry may do: the instructions of the selected
\* production, the oracle bytes left, whether should_generate_unknown drew
Plan(todo, u) == [todo |-> todo, u |-> u, drew |-> FALSE]

\* a leaf generator's outcome (a value or an error, no frame of its own)
LeafPlan(o) == Plan(<< IF o.v.ok THEN Ret(o.v.kind) ELSE Fail(o.v.err) >>, o.u)

(**************************** UID generators *******************************)
\* arbitrary_uid_with_type: the hierarchy's (or the schema's) UID of the type
arbitrary_uid_with_type(n) == { [v |-> Ok("lit_uid", {}), u |-> Consume(n)] }

\* arbitrary_principal_uid: u.choose(&schema.principal_types)
arbitrary_principal_uid(n) ==
  IF PrincipalTypes = <<>> THEN { [v |-> Err("EmptyChoose"), u |-> n] }
  ELSE arbitrary_uid_with_type(Consume(n))

\* arbitrary_action_uid: u.choose(&schema.actions_eids)
arbitrary_action_uid(n) ==
  IF ActionsEids = <<>> THEN { [v |-> Err("EmptyChoose"), u |-> n] }
  ELSE { [v |-> Ok("lit_uid", {}), u |-> Consume(n)] }

\* arbitrary_resource_uid: u.choose(&schema.resource_types)
arbitrary_resource_uid(n) ==
  IF ResourceTypes = <<>> THEN { [v |-> Err("EmptyChoose"), u |-> n] }
  ELSE arbitrary_uid_with_type(Consume(n))

\* generate_uid: uniform!(principal, action, resource)
generate_uid(n) ==
  UNION { CASE which = "principal" -> arbitrary_principal_uid(Consume(n))
            [] which = "action" -> arbitrary_action_uid(Consume(n))
            [] OTHER -> arbitrary_resource_uid(Consume(n))
          : which \in Uniform(n, <<"principal", "action", "resource">>) }

(************************ literals and variables ***************************)
GenerateLiteralMenu ==
  << [w |-> 11, p |-> "lit_bool"], [w |-> 10, p |-> "lit_long"], [w |-> 10, p |-> "lit_string"],
     [w |-> 20, p |-> "uid"], [w |-> 4, p |-> "arbitrary_uid"] >>

\* generate_literal: a literal of an arbitrary type, no recursion
generate_literal(n) ==
  UNION { IF p = "uid" THEN generate_uid(Consume(n))
          ELSE { [v |-> Ok(IF p = "arbitrary_uid" THEN "lit_uid" ELSE p, {}), u |-> Consume(Consume(n))] }
          : p \in Gen(n, GenerateLiteralMenu) }

\* generate_literal_or_var: u.ratio(1, 4) picks a variable, else a literal
generate_literal_or_var(n) ==
  UNION { IF is_var THEN { [v |-> Ok("var", {}), u |-> Consume(Consume(n))] }
          ELSE generate_literal(Consume(n))
          : is_var \in Ratio(n) }

(***************************** generate_expr *******************************)
GenerateExprMenu ==
  << [w |-> 2, p |-> "literal_or_var"], [w |-> 1, p |-> "is_eq"], [w |-> 1, p |-> "not"],
     [w |-> 1, p |-> "other"] >>

GenerateExprOtherMenu ==
  << [w |-> 2, p |-> "ite"], [w |-> 2, p |-> "and"], [w |-> 2, p |-> "or"],
     [w |-> 1, p |-> "less"], [w |-> 1, p |-> "lesseq"], [w |-> 1, p |-> "greater"],
     [w |-> 1, p |-> "greatereq"], [w |-> 1, p |-> "add"], [w |-> 1, p |-> "sub"],
     [w |-> 1, p |-> "mul"], [w |-> 1, p |-> "neg"], [w |-> 6, p |-> "is_in"],
     [w |-> 1, p |-> "contains"], [w |-> 1, p |-> "contains_all"], [w |-> 1, p |-> "contains_any"],
     [w |-> 1, p |-> "is_empty"], [w |-> 2, p |-> "like"], [w |-> 1, p |-> "is"],
     [w |-> 1, p |-> "set"], [w |-> 1, p |-> "record"], [w |-> 1, p |-> "ext_call"],
     [w |-> 7, p |-> "get_attr"], [w |-> 4, p |-> "has_attr"], [w |-> 4, p |-> "has_tag"] >>

\* the operators with one and with two operands
UnaryOps == {"not", "neg", "is_empty"}

BinaryOps ==
  {"is_eq", "and", "or", "less", "lesseq", "greater", "greatereq", "add", "sub", "mul",
   "is_in", "contains", "contains_all", "contains_any"}

\* the recursive call of generate_expr: self.generate_expr(max_depth - 1, u)
GE(d) == Call("generate_expr", <<>>, d - 1)

\* (C8 mutant) the arity drawn whatever enable_arbitrary_func_call says
ArbitraryArityUnguarded(func, n) ==
  UNION { IF respect THEN { [arity |-> Len(func.parameter_types), u |-> Consume(n)] }
          ELSE { [arity |-> a, u |-> Consume(Consume(n))]
                 : a \in DrawFrom(Consume(n), 0..MaxArbitraryArity, 0) }
          : respect \in Ratio(n) }

\* the arity and the function name of the extension-call production
\* (expr.rs 192-208): the declared ones unless enable_arbitrary_func_call
\* is set and the 9-in-10 ratio fails
ArbitraryArity(func, n) ==
  IF ~settings.enable_arbitrary_func_call
  THEN { [arity |-> Len(func.parameter_types), u |-> n] }
  ELSE UNION { IF respect THEN { [arity |-> Len(func.parameter_types), u |-> Consume(n)] }
               ELSE { [arity |-> a, u |-> Consume(Consume(n))]
                      : a \in DrawFrom(Consume(n), 0..MaxArbitraryArity, 0) }
               : respect \in Ratio(n) }

ArbitraryFnName(func, n) ==
  IF ~settings.enable_arbitrary_func_call
  THEN { [name |-> func.name, u |-> n] }
  ELSE UNION { IF respect THEN { [name |-> func.name, u |-> Consume(n)] }
               ELSE { [name |-> a, u |-> Consume(Consume(n))]
                      : a \in DrawFrom(Consume(n), ArbitraryNames, "f") }
               : respect \in Ratio(n) }

\* the extension-call production of generate_expr (expr.rs 188-215)
GenerateExprExtCall(d, n) ==
  IF ~settings.enable_extensions THEN { Plan(<<Fail("ExtensionsDisabled")>>, n) }
  ELSE IF ext_funcs = <<>> THEN { Plan(<<Fail("EmptyChoose")>>, n) }
  ELSE UNION UNION { { { Plan([i \in 1..a.arity |-> GE(d)] \o <<RetExt(f.name, a.arity)>>,
                               f.u)
                         : f \in ArbitraryFnName(func, a.u) }
                       : a \in ArbitraryArity(func, Consume(n)) }
                     : func \in arbitrary_all(ext_funcs) }

\* (C6 mutant) the like production without its enable_like test
GenerateExprLikeUnguarded(d, n) ==
  { Plan(<<GE(d), Draw("pattern_literal"), Ret("like")>>, n) }

\* the like production of generate_expr (expr.rs 152-161)
GenerateExprLike(d, n) ==
  IF settings.enable_like
  THEN { Plan(<<GE(d), Draw("pattern_literal"), Ret("like")>>, n) }
  ELSE { Plan(<<Fail("LikeDisabled")>>, n) }

\* the instructions of production p of generate_expr, selected with n
\* oracle bytes left
GenerateExprProduction(p, d, n) ==
  LET sub == GE(d) IN
  CASE p = "literal_or_var" -> { LeafPlan(o) : o \in generate_literal_or_var(n) }
    [] p \in UnaryOps -> { Plan(<<sub, Ret("unop")>>, n) }
    [] p \in BinaryOps -> { Plan(<<sub, sub, Ret("binop")>>, n) }
    [] p = "ite" -> { Plan(<<sub, sub, sub, Ret("ite")>>, n) }
    [] p = "like" -> GenerateExprLike(d, n)
    [] p = "is" -> { Plan(<<sub, Draw("entity_types"), Ret("is")>>, n) }
    [] p = "set" -> { Plan(<<Loop(0, <<sub>>), Ret("set")>>, n) }
    [] p = "record" ->
         { Plan(<<Loop(0, <<Key("schema_attr"), sub, Insert("expr")>>), Ret("record")>>, n) }
    [] p = "ext_call" -> GenerateExprExtCall(d, n)
    [] p = "get_attr" ->
         \* attr_name: gen!(1 => arbitrary String, 6 => schema.arbitrary_attr)
         UNION { IF src = "schema_attr" /\ arbitrary_attr = {}
                 THEN { Plan(<<Fail("EmptyChoose")>>, Consume(n)) }
                 ELSE { Plan(<<sub, RetWrapped("get_attr")>>, Consume(Consume(n))) }
                 : src \in Gen(n, << [w |-> 1, p |-> "arbitrary_string"], [w |-> 6, p |-> "schema_attr"] >>) }
    [] p = "has_attr" ->
         \* attr_name: uniform!(schema.arbitrary_attr, arbitrary String)
         UNION { IF src = "schema_attr" /\ arbitrary_attr = {}
                 THEN { Plan(<<Fail("EmptyChoose")>>, Consume(n)) }
                 ELSE { Plan(<<sub, Ret("has_attr")>>, Consume(Consume(n))) }
                 : src \in Uniform(n, <<"schema_attr", "arbitrary_string">>) }
    [] OTHER ->
         \* has_tag; tag_name: uniform!(generate_expr, schema.arbitrary_attr)
         { IF src = "expr" THEN Plan(<<sub, sub, Ret("has_tag")>>, Consume(n))
           ELSE Plan(<<Draw("schema_attr"), sub, Ret("has_tag")>>, Consume(n))
           : src \in Uniform(n, <<"expr", "schema_attr">>) }

\* (C2 mutant) generate_expr without its max_depth == 0 case
GenerateExprPlansNoTerminal(d, n) ==
  UNION { IF p = "other"
          THEN UNION { GenerateExprProduction(q, d, Consume(Consume(n)))
                       : q \in Gen(Consume(n), GenerateExprOtherMenu) }
          ELSE GenerateExprProduction(p, d, Consume(n))
          : p \in Gen(n, GenerateExprMenu) }

\* generate_expr(max_depth, u) up to the selection of its production
GenerateExprPlans(d, n) ==
  IF d = 0 THEN { LeafPlan(o) : o \in generate_literal_or_var(n) }
  ELSE UNION { IF p = "other"
               THEN UNION { GenerateExprProduction(q, d, Consume(Consume(n)))
                            : q \in Gen(Consume(n), GenerateExprOtherMenu) }
               ELSE GenerateExprProduction(p, d, Consume(n))
               : p \in Gen(n, GenerateExprMenu) }

(************************ should_generate_unknown **************************)
\* (C5 mutant) the comparison against the remaining budget itself
UnknownFiresTowardsRoot(max_depth, choice) == choice <= max_depth

\* (C23 mutant) a decision that fires only below the chance
UnknownFiresBelowChance(max_depth, choice) == choice < settings.max_depth - max_depth

\* `chance = settings.max_depth - max_depth`, `Ok(choice <= chance)`
UnknownFires(max_depth, choice) == choice <= settings.max_depth - max_depth

\* should_generate_unknown on an oracle whose int_in_range(0..=settings.
\* max_depth) yields one of choices: the decisions, the oracle bytes left,
\* whether the oracle was drawn from
ShouldGenerateUnknownOn(max_depth, n, choices) ==
  IF settings.enable_unknowns
  THEN { [fire |-> UnknownFires(max_depth, choice), u |-> Consume(n), drew |-> TRUE]
         : choice \in choices }
  ELSE { [fire |-> FALSE, u |-> n, drew |-> FALSE] }

\* (C4 mutant) should_generate_unknown without its enable_unknowns test
ShouldGenerateUnknownUnguarded(max_depth, n) ==
  { [fire |-> UnknownFires(max_depth, choice), u |-> Consume(n), drew |-> TRUE]
    : choice \in DrawFrom(n, 0..settings.max_depth, 0) }

\* should_generate_unknown(max_depth, u) (expr.rs 2570-2578)
should_generate_unknown(max_depth, n) ==
  ShouldGenerateUnknownOn(max_depth, n, DrawFrom(n, 0..settings.max_depth, 0))

(************************ generate_expr_for_type ***************************)
\* the sub-calls of the typed generators, one level down
GET(ty, d) == Call("generate_expr_for_type", ty, d - 1)

GES(sty, d) == Call("generate_expr_for_schematype", sty, d - 1)

\* the production `ext function returning target_type`
ExtForType(ty, d, n) ==
  { Plan(<<Call("generate_ext_func_call_for_type", ty, d - 1), RetLast>>, n) }

\* `getting an attr (on an entity) with type sty`: the entity type comes
\* from schema.arbitrary_attr_for_schematype, which fails when there is none
AttrOnEntity(entities, d, n) ==
  IF entities = {} THEN { Plan(<<Fail("EmptyChoose")>>, n) }
  ELSE { Plan(<<GES(entity_type_name_to_schema_type(e), d), Ret("get_attr")>>, Consume(n))
         : e \in DrawFrom(n, entities, CHOOSE x \in entities : TRUE) }

\* `getting an attr (on a record) with type sty`
AttrOnRecord(sty, d, n) ==
  { Plan(<<GES(record_schematype_with_attr(a, sty), d), Ret("get_attr")>>, Consume(n))
    : a \in DrawFrom(n, StringConstants, "name") }

\* `getting an entity tag with type sty`
TagOnEntity(entities, d, n) ==
  IF entities = {} THEN { Plan(<<Fail("EmptyChoose")>>, n) }
  ELSE { Plan(<<GES(entity_type_name_to_schema_type(e), d), GES(<<"String">>, d), Ret("get_tag")>>,
              Consume(n))
         : e \in DrawFrom(n, entities, CHOOSE x \in entities : TRUE) }

\* if-then-else with both arms of type ty
IteOfType(ty, d, n) == { Plan(<<GET(<<"Bool">>, d), GET(ty, d), GET(ty, d), Ret("ite")>>, n) }

\* the drawn types of a production that draws them before its first call
ArbitraryType(n) == DrawFrom(n, ArbitraryTypes, <<"Bool">>)

BoolMenu ==
  << [w |-> 2, p |-> "literal"], [w |-> 5, p |-> "eq_match"], [w |-> 2, p |-> "eq_mismatch"],
     [w |-> 5, p |-> "not"], [w |-> 5, p |-> "ite"], [w |-> 5, p |-> "and"], [w |-> 5, p |-> "or"],
     [w |-> 1, p |-> "less"], [w |-> 1, p |-> "lesseq"], [w |-> 1, p |-> "greater"],
     [w |-> 1, p |-> "greatereq"], [w |-> 11, p |-> "in"], [w |-> 2, p |-> "in_set"],
     [w |-> 2, p |-> "contains"], [w |-> 1, p |-> "contains_all"], [w |-> 1, p |-> "contains_any"],
     [w |-> 1, p |-> "is_empty"], [w |-> 2, p |-> "like"], [w |-> 2, p |-> "is"],
     [w |-> 2, p |-> "ext"], [w |-> 1, p |-> "attr_entity"], [w |-> 1, p |-> "attr_record"],
     [w |-> 1, p |-> "tag"], [w |-> 2, p |-> "has_entity_attr"], [w |-> 1, p |-> "has_arbitrary"],
     [w |-> 1, p |-> "has_tag"], [w |-> 2, p |-> "has_record"] >>

\* the attribute names entity type e declares
AttrNames(e) == { a.name : a \in { x \in arbitrary_attr : x.entity = e } }

\* Type::Bool, production p (expr.rs 293-646)
BoolProduction(p, d, n) ==
  LET bool == <<"Bool">>  long == <<"Long">>  entity == <<"Entity">> IN
  CASE p = "literal" -> { Plan(<<Ret("lit_bool")>>, Consume(n)) }
    [] p = "eq_match" ->
         { Plan(<<GET(ty, d), GET(ty, d), Ret("binop")>>, Consume(n)) : ty \in ArbitraryType(n) }
    [] p = "eq_mismatch" ->
         UNION { { Plan(<<GET(ty1, d), GET(ty2, d), Ret("binop")>>, Consume(Consume(n)))
                   : ty2 \in ArbitraryType(Consume(n)) }
                 : ty1 \in ArbitraryType(n) }
    [] p = "not" -> { Plan(<<GET(bool, d), Ret("unop")>>, n) }
    [] p = "ite" -> IteOfType(bool, d, n)
    [] p \in {"and", "or"} -> { Plan(<<GET(bool, d), GET(bool, d), Ret("binop")>>, n) }
    [] p \in {"less", "lesseq", "greater", "greatereq"} ->
         { Plan(<<GET(long, d), GET(long, d), Ret("binop")>>, n) }
    [] p = "in" -> { Plan(<<GET(entity, d), GET(entity, d), Ret("binop")>>, n) }
    [] p = "in_set" -> { Plan(<<GET(entity, d), GET(set_of(entity), d), Ret("binop")>>, n) }
    [] p = "contains" ->
         { Plan(<<GET(ty, d), GET(set_of(ty), d), Ret("binop")>>, Consume(n))
           : ty \in ArbitraryType(n) }
    [] p \in {"contains_all", "contains_any"} ->
         { Plan(<<DrawTy("any"), CallT("generate_expr_for_type", d - 1, "set_of"),
                  DrawTy("any"), CallT("generate_expr_for_type", d - 1, "set_of"), Ret("binop")>>, n) }
    [] p = "is_empty" ->
         { Plan(<<DrawTy("any"), CallT("generate_expr_for_type", d - 1, "set_of"), Ret("unop")>>, n) }
    [] p = "like" ->
         IF settings.enable_like
         THEN { Plan(<<GET(<<"String">>, d), Draw("pattern_literal"), Ret("like")>>, n) }
         ELSE { Plan(<<Fail("LikeDisabled")>>, n) }
    [] p = "is" -> { Plan(<<GET(entity, d), Draw("entity_types"), Ret("is")>>, n) }
    [] p = "ext" -> ExtForType(bool, d, n)
    [] p = "attr_entity" -> AttrOnEntity(arbitrary_attr_for_schematype(<<"Boolean">>), d, n)
    [] p = "attr_record" -> AttrOnRecord(<<"Boolean">>, d, n)
    [] p = "tag" -> TagOnEntity(arbitrary_entity_type_with_tag_schematype(<<"Boolean">>), d, n)
    [] p = "has_entity_attr" ->
         \* choose_index(entity_types.len()).expect(..), then u.choose(&attr_names)?
         IF EntityTypes = <<>> THEN { Plan(<<Fail("panic")>>, n) }
         ELSE { IF AttrNames(EntityTypes[i]) = {}
                THEN Plan(<<Fail("EmptyChoose")>>, Consume(n))
                ELSE Plan(<<GES(<<"Entity", EntityTypes[i]>>, d), Ret("has_attr")>>, Consume(Consume(n)))
                : i \in DrawFrom(n, DOMAIN EntityTypes, 1) }
    [] p = "has_arbitrary" -> { Plan(<<GET(entity, d), Draw("string_constant"), Ret("has_attr")>>, n) }
    [] p = "has_tag" -> { Plan(<<GET(entity, d), GET(<<"String">>, d), Ret("has_tag")>>, n) }
    [] OTHER -> { Plan(<<GET(<<"Record">>, d), Draw("string_constant"), Ret("has_attr")>>, n) }

LongMenu ==
  << [w |-> 16, p |-> "literal"], [w |-> 5, p |-> "ite"], [w |-> 1, p |-> "add"],
     [w |-> 1, p |-> "sub"], [w |-> 1, p |-> "mul"], [w |-> 1, p |-> "neg"], [w |-> 1, p |-> "ext"],
     [w |-> 4, p |-> "attr_entity"], [w |-> 4, p |-> "attr_record"], [w |-> 3, p |-> "tag"] >>

\* Type::Long, production p (expr.rs 656-780)
LongProduction(p, d, n) ==
  LET long == <<"Long">> IN
  CASE p = "literal" -> { Plan(<<Ret("lit_long")>>, Consume(n)) }
    [] p = "ite" -> IteOfType(long, d, n)
    [] p \in {"add", "sub", "mul"} -> { Plan(<<GET(long, d), GET(long, d), Ret("binop")>>, n) }
    [] p = "neg" -> { Plan(<<GET(long, d), Ret("unop")>>, n) }
    [] p = "ext" -> ExtForType(long, d, n)
    [] p = "attr_entity" -> AttrOnEntity(arbitrary_attr_for_schematype(long), d, n)
    [] p = "attr_record" -> AttrOnRecord(long, d, n)
    [] OTHER -> TagOnEntity(arbitrary_entity_type_with_tag_schematype(long), d, n)

StringMenu ==
  << [w |-> 16, p |-> "literal"], [w |-> 5, p |-> "ite"], [w |-> 1, p |-> "ext"],
     [w |-> 4, p |-> "attr_entity"], [w |-> 4, p |-> "attr_record"], [w |-> 3, p |-> "tag"] >>

\* Type::String, production p (expr.rs 790-869)
StringProduction(p, d, n) ==
  LET string == <<"String">> IN
  CASE p = "literal" -> { Plan(<<Ret("lit_string")>>, Consume(n)) }
    [] p = "ite" -> IteOfType(string, d, n)
    [] p = "ext" -> ExtForType(string, d, n)
    [] p = "attr_entity" -> AttrOnEntity(arbitrary_attr_for_schematype(string), d, n)
    [] p = "attr_record" -> AttrOnRecord(string, d, n)
    [] OTHER -> TagOnEntity(arbitrary_entity_type_with_tag_schematype(string), d, n)

SetMenu ==
  << [w |-> 6, p |-> "literal"], [w |-> 2, p |-> "ite"], [w |-> 1, p |-> "ext"],
     [w |-> 4, p |-> "attr_entity"], [w |-> 3, p |-> "attr_record"], [w |-> 3, p |-> "tag"] >>

\* Type::Set(target_element_ty), production p (expr.rs 877-973)
SetProduction(p, ty, d, n) ==
  CASE p = "literal" ->
         \* the element type: the target's, or an arbitrary one for Set(None)
         IF ty = <<"Set">>
         THEN { Plan(<<Loop(0, <<GET(el, d)>>), Ret("set")>>, Consume(n)) : el \in ArbitraryType(n) }
         ELSE { Plan(<<Loop(0, <<GET(Tail(ty), d)>>), Ret("set")>>, n) }
    [] p = "ite" -> IteOfType(ty, d, n)
    [] p = "ext" -> ExtForType(ty, d, n)
    [] p = "attr_entity" -> AttrOnEntity(arbitrary_attr_for_type(ty), d, n)
    [] p = "attr_record" ->
         IF try_into_schematype(ty) = {}
         THEN { Plan(<<Fail("IncorrectFormat")>>, Consume(n)) }
         ELSE UNION { { Plan(<<GES(record_schematype_with_attr(a, sty), d), Ret("get_attr")>>,
                             Consume(Consume(n)))
                        : sty \in try_into_schematype(ty) }
                      : a \in DrawFrom(n, StringConstants, "name") }
    [] OTHER -> TagOnEntity(arbitrary_entity_type_with_tag_type(ty), d, n)

RecordMenu ==
  << [w |-> 2, p |-> "literal"], [w |-> 2, p |-> "ite"], [w |-> 1, p |-> "ext"],
     [w |-> 4, p |-> "attr_entity"], [w |-> 3, p |-> "attr_record"], [w |-> 3, p |-> "tag"] >>

\* Record { attributes: {}, additional_attributes: true }
OpenRecord == <<"RecDecl", "Open">>

\* Type::Record, production p (expr.rs 981-1082)
RecordProduction(p, d, n) ==
  LET record == <<"Record">> IN
  CASE p = "literal" ->
         { Plan(<<Loop(0, <<DrawTy("any"), CallT("generate_expr_for_type", d - 1, ""),
                            Key("string_constant"), Insert("expr")>>),
                  Ret("record")>>, n) }
    [] p = "ite" -> IteOfType(record, d, n)
    [] p = "ext" -> ExtForType(record, d, n)
    [] p = "attr_entity" -> AttrOnEntity(arbitrary_attr_for_schematype(OpenRecord), d, n)
    [] p = "attr_record" -> AttrOnRecord(OpenRecord, d, n)
    [] OTHER -> TagOnEntity(arbitrary_entity_type_with_tag_type(record), d, n)

EntityMenu ==
  << [w |-> 11, p |-> "uid"], [w |-> 2, p |-> "arbitrary_uid"], [w |-> 6, p |-> "principal"],
     [w |-> 6, p |-> "action"], [w |-> 6, p |-> "resource"], [w |-> 2, p |-> "ite"],
     [w |-> 1, p |-> "ext"], [w |-> 6, p |-> "attr_entity"], [w |-> 5, p |-> "attr_record"],
     [w |-> 5, p |-> "tag"] >>

\* u.choose(&self.schema.entity_types): the entity schema types it may
\* return (none: the choice fails)
ChooseEntityType(n) ==
  IF EntityTypes = <<>> THEN {}
  ELSE { entity_type_name_to_schema_type(EntityTypes[i]) : i \in DrawFrom(n, DOMAIN EntityTypes, 1) }

\* Type::Entity, production p (expr.rs 1094-1179)
EntityProduction(p, d, n) ==
  LET entity == <<"Entity">> IN
  CASE p = "uid" -> { LeafPlan(o) : o \in generate_uid(n) }
    [] p = "arbitrary_uid" -> { Plan(<<Ret("lit_uid")>>, Consume(n)) }
    [] p \in {"principal", "action", "resource"} -> { Plan(<<Ret("var")>>, n) }
    [] p = "ite" -> IteOfType(entity, d, n)
    [] p = "ext" -> ExtForType(entity, d, n)
    [] p = "attr_entity" ->
         IF EntityTypes = <<>> THEN { Plan(<<Fail("EmptyChoose")>>, n) }
         ELSE UNION { AttrOnEntity(arbitrary_attr_for_schematype(sty), d, Consume(n))
                      : sty \in ChooseEntityType(n) }
    [] p = "attr_record" ->
         IF EntityTypes = <<>> THEN { Plan(<<Fail("EmptyChoose")>>, Consume(n)) }
         ELSE UNION { { Plan(<<GES(record_schematype_with_attr(a, sty), d), Ret("get_attr")>>,
                             Consume(Consume(n)))
                        : sty \in ChooseEntityType(Consume(n)) }
                      : a \in DrawFrom(n, StringConstants, "name") }
    [] OTHER ->
         IF EntityTypes = <<>> THEN { Plan(<<Fail("EmptyChoose")>>, n) }
         ELSE UNION { TagOnEntity(arbitrary_entity_type_with_tag_schematype(sty), d, Consume(n))
                      : sty \in ChooseEntityType(n) }

ExtensionMenu ==
  << [w |-> 2, p |-> "ite"], [w |-> 9, p |-> "ext"], [w |-> 2, p |-> "attr_entity"],
     [w |-> 2, p |-> "attr_record"], [w |-> 5, p |-> "tag"] >>

\* the schema type of an extension type: Extension { name: type_name }
ExtensionSchemaType(ty) ==
  CASE ty = <<"IPAddr">> -> <<"Extension", "ipaddr">>
    [] ty = <<"Decimal">> -> <<"Extension", "decimal">>
    [] ty = <<"DateTime">> -> <<"Extension", "datetime">>
    [] OTHER -> <<"Extension", "duration">>

\* Type::IPAddr | Decimal | DateTime | Duration, production p (expr.rs 1203-1280)
ExtensionProduction(p, ty, d, n) ==
  CASE p = "ite" -> IteOfType(ty, d, n)
    [] p = "ext" -> ExtForType(ty, d, n)
    [] p = "attr_entity" -> AttrOnEntity(arbitrary_attr_for_schematype(ExtensionSchemaType(ty)), d, n)
    [] p = "attr_record" -> AttrOnRecord(ExtensionSchemaType(ty), d, n)
    [] OTHER -> TagOnEntity(arbitrary_entity_type_with_tag_schematype(ExtensionSchemaType(ty)), d, n)

\* arbitrary_ext_constructor_call_for_type (expr.rs 1849-1896): the
\* constructor is called on string constants; offset(datetime(s), duration(s))
ConstructorArgs(name) ==
  IF name = "offset"
  THEN <<Draw("ext_str"), Draw("ext_str"), Node("datetime", 1), Node("duration", 1)>>
  ELSE <<Draw("ext_str")>>

\* the number of arguments the constructor call is built with
ConstructorArgCount(name) == IF name = "offset" THEN 2 ELSE 1

\* the constructor names the match handles; any other is unreachable!()
KnownConstructors == {"ip", "decimal", "datetime", "offset", "duration"}

arbitrary_ext_constructor_call_for_type(ty, n) ==
  IF arbitrary_constructor_for_type(ext_funcs, ty) = {}
  THEN { Plan(<<Fail("EmptyChoose")>>, n) }
  ELSE { IF func.name \notin KnownConstructors
         THEN Plan(<<Fail("panic")>>, Consume(n))
         ELSE Plan(ConstructorArgs(func.name)
                   \o << IF ConstructorArgCount(func.name) = Len(func.parameter_types)
                         THEN RetExt(func.name, ConstructorArgCount(func.name))
                         ELSE Fail("panic") >>,
                   Consume(n))
         : func \in DrawFrom(n, arbitrary_constructor_for_type(ext_funcs, ty),
                             CHOOSE f \in arbitrary_constructor_for_type(ext_funcs, ty) : TRUE) }

\* the menu of a semantic type
TypeMenu(ty) ==
  CASE ty = <<"Bool">> -> BoolMenu
    [] ty = <<"Long">> -> LongMenu
    [] ty = <<"String">> -> StringMenu
    [] ty = <<"Record">> -> RecordMenu
    [] ty = <<"Entity">> -> EntityMenu
    [] IsSetType(ty) -> SetMenu
    [] OTHER -> ExtensionMenu

TypeProduction(p, ty, d, n) ==
  CASE ty = <<"Bool">> -> BoolProduction(p, d, n)
    [] ty = <<"Long">> -> LongProduction(p, d, n)
    [] ty = <<"String">> -> StringProduction(p, d, n)
    [] ty = <<"Record">> -> RecordProduction(p, d, n)
    [] ty = <<"Entity">> -> EntityProduction(p, d, n)
    [] IsSetType(ty) -> SetProduction(p, ty, d, n)
    [] OTHER -> ExtensionProduction(p, ty, d, n)

\* (C10 mutant) a terminal case that gives Record the empty record
TypeTerminalEmptyRecord(ty, n) ==
  CASE ty = <<"Bool">> -> { Plan(<<Ret("lit_bool")>>, Consume(n)) }
    [] ty = <<"Long">> -> { Plan(<<Ret("lit_long")>>, Consume(n)) }
    [] ty = <<"String">> -> { Plan(<<Ret("lit_string")>>, Consume(n)) }
    [] ty = <<"Record">> -> { Plan(<<Ret("record")>>, n) }
    [] ty = <<"Entity">> -> { Plan(<<Ret("var")>>, Consume(n)) }
    [] IsSetType(ty) -> { Plan(<<Ret("set")>>, n) }
    [] OTHER -> arbitrary_ext_constructor_call_for_type(ty, n)

\* what each type does when `max_depth == 0 || u.len() < 10`
TypeTerminal(ty, n) ==
  CASE ty = <<"Bool">> -> { Plan(<<Ret("lit_bool")>>, Consume(n)) }
    [] ty = <<"Long">> -> { Plan(<<Ret("lit_long")>>, Consume(n)) }
    [] ty = <<"String">> -> { Plan(<<Ret("lit_string")>>, Consume(n)) }
    [] ty = <<"Record">> -> { Plan(<<Fail("TooDeep")>>, n) }
    [] ty = <<"Entity">> -> { Plan(<<Ret("var")>>, Consume(n)) }
    [] IsSetType(ty) -> { Plan(<<Ret("set")>>, n) }
    [] OTHER -> arbitrary_ext_constructor_call_for_type(ty, n)

\* (C3 mutant) the dispatch with the oracle-length test only
TypeDispatchNoDepthTest(ty, d, n) ==
  IF ty \in ExtensionTypes /\ ~settings.enable_extensions
  THEN { Plan(<<Fail("ExtensionsDisabled")>>, n) }
  ELSE IF n < TerminalThreshold THEN TypeTerminal(ty, n)
  ELSE UNION { TypeProduction(p, ty, d, Consume(n)) : p \in Gen(n, TypeMenu(ty)) }

\* (C24 mutant) the dispatch with the max_depth test only
TypeDispatchNoLengthTest(ty, d, n) ==
  IF ty \in ExtensionTypes /\ ~settings.enable_extensions
  THEN { Plan(<<Fail("ExtensionsDisabled")>>, n) }
  ELSE IF d = 0 THEN TypeTerminal(ty, n)
  ELSE UNION { TypeProduction(p, ty, d, Consume(n)) : p \in Gen(n, TypeMenu(ty)) }

\* the `match target_type` of generate_expr_for_type (expr.rs 287-1283)
TypeDispatch(ty, d, n) ==
  IF ty \in ExtensionTypes /\ ~settings.enable_extensions
  THEN { Plan(<<Fail("ExtensionsDisabled")>>, n) }
  ELSE IF d = 0 \/ n < TerminalThreshold THEN TypeTerminal(ty, n)
  ELSE UNION { TypeProduction(p, ty, d, Consume(n)) : p \in Gen(n, TypeMenu(ty)) }

\* (C11 mutant) a short-circuit that returns the placeholder without the
\* allocation
GenerateExprForTypePlansNoAlloc(ty, d, n) ==
  UNION { IF s.fire
          THEN { [todo |-> <<Call("generate_value_for_type", ty, d), Ret("unknown")>>,
                  u |-> s.u, drew |-> s.drew] }
          ELSE { [o EXCEPT !.drew = s.drew] : o \in TypeDispatch(ty, d, s.u) }
          : s \in should_generate_unknown(d, n) }

\* (C30 mutant) a depth test placed before the unknown decision
GenerateExprForTypePlansDepthFirst(ty, d, n) ==
  IF d = 0 THEN TypeDispatch(ty, d, n)
  ELSE UNION { IF s.fire
               THEN { [todo |-> <<Call("generate_value_for_type", ty, d), Alloc, Ret("unknown")>>,
                       u |-> s.u, drew |-> s.drew] }
               ELSE { [o EXCEPT !.drew = s.drew] : o \in TypeDispatch(ty, d, s.u) }
               : s \in should_generate_unknown(d, n) }

\* generate_expr_for_type(target_type, max_depth, u) up to the selection of
\* its production (expr.rs 272-1285)
GenerateExprForTypePlans(ty, d, n) ==
  UNION { IF s.fire
          THEN { [todo |-> <<Call("generate_value_for_type", ty, d), Alloc, Ret("unknown")>>,
                  u |-> s.u, drew |-> s.drew] }
          ELSE { [o EXCEPT !.drew = s.drew] : o \in TypeDispatch(ty, d, s.u) }
          : s \in should_generate_unknown(d, n) }

(********************** generate_expr_for_schematype ***********************)
SchemaSetMenu == SetMenu

SchemaRecordMenu ==
  << [w |-> 2, p |-> "literal"], [w |-> 14, p |-> "context"], [w |-> 2, p |-> "ite"],
     [w |-> 1, p |-> "ext"], [w |-> 4, p |-> "attr_entity"], [w |-> 3, p |-> "attr_record"],
     [w |-> 3, p |-> "tag"] >>

SchemaEntityMenu ==
  << [w |-> 13, p |-> "uid"], [w |-> 6, p |-> "principal"], [w |-> 6, p |-> "action"],
     [w |-> 6, p |-> "resource"], [w |-> 2, p |-> "ite"], [w |-> 1, p |-> "ext"],
     [w |-> 6, p |-> "attr_entity"], [w |-> 5, p |-> "attr_record"], [w |-> 5, p |-> "tag"] >>

\* the universe the type of an additional attribute is drawn from
AdditionalUniverse == IF settings.enable_extensions THEN "any" ELSE "nonext"

\* (C13 mutant) declared attributes where the required ones, too, are left
\* to u.ratio(1, 2)
RECURSIVE DeclaredAttributesAllOptional(_, _)
DeclaredAttributesAllOptional(attrs, d) ==
  IF attrs = <<>> THEN <<>>
  ELSE LET a == Head(attrs)
           body == <<Call("generate_expr_for_schematype", a.ty, d - 1), DeclaredKey(a.name),
                     Insert("declared")>>
       IN <<Maybe(body)>> \o DeclaredAttributesAllOptional(Tail(attrs), d)

\* the declared attributes of a record literal, in the schema's order:
\* required ones always, optional ones on u.ratio(1, 2)
RECURSIVE DeclaredAttributes(_, _)
DeclaredAttributes(attrs, d) ==
  IF attrs = <<>> THEN <<>>
  ELSE LET a == Head(attrs)
           body == <<Call("generate_expr_for_schematype", a.ty, d - 1), DeclaredKey(a.name),
                     Insert("declared")>>
       IN (IF a.required THEN body ELSE <<Maybe(body)>>) \o DeclaredAttributes(Tail(attrs), d)

\* the productions the schema-typed Set, Record and Entity share
SchemaCommonProduction(p, sty, d, n) ==
  CASE p = "attr_entity" -> AttrOnEntity(arbitrary_attr_for_schematype(sty), d, n)
    [] p = "attr_record" -> AttrOnRecord(sty, d, n)
    [] OTHER -> TagOnEntity(arbitrary_entity_type_with_tag_schematype(sty), d, n)

\* TypeVariant::Set { element }, production p (expr.rs 1355-1433)
SchemaSetProduction(p, sty, d, n) ==
  LET element_ty == Tail(sty) IN
  CASE p = "literal" -> { Plan(<<Loop(0, <<GES(element_ty, d)>>), Ret("set")>>, n) }
    [] p = "ite" ->
         { Plan(<<GET(<<"Bool">>, d), GES(element_ty, d), GES(element_ty, d), Ret("ite")>>, n) }
    [] p = "ext" ->
         { Plan(<<Call("generate_ext_func_call_for_schematype", element_ty, d - 1), RetLast>>,
                n) }
    [] OTHER -> SchemaCommonProduction(p, sty, d, n)

\* TypeVariant::Record, production p (expr.rs 1447-1575)
SchemaRecordProduction(p, sty, d, n) ==
  CASE p = "literal" ->
         { Plan((IF AdditionalAttributes(sty)
                 THEN <<Loop(0, <<DrawTy(AdditionalUniverse), Key("arbitrary_string"),
                                  CallT("generate_expr_for_type", d - 1, ""), Insert("additional")>>)>>
                 ELSE <<>>)
                \o DeclaredAttributes(RecordAttributes(sty), d) \o <<Ret("record")>>, n) }
    [] p = "context" -> { Plan(<<Fail("TooDeep")>>, n) }
    [] p = "ite" -> { Plan(<<GET(<<"Bool">>, d), GES(sty, d), GES(sty, d), Ret("ite")>>, n) }
    [] p = "ext" ->
         { Plan(<<Call("generate_ext_func_call_for_schematype", sty, d - 1), RetLast>>,
                n) }
    [] OTHER -> SchemaCommonProduction(p, sty, d, n)

\* TypeVariant::Entity { name }, production p (expr.rs 1590-1676)
SchemaEntityProduction(p, sty, d, n) ==
  CASE p = "uid" -> { LeafPlan(o) : o \in arbitrary_uid_with_type(n) }
    [] p \in {"principal", "action", "resource"} -> { Plan(<<Ret("var")>>, n) }
    [] p = "ite" -> { Plan(<<GET(<<"Bool">>, d), GES(sty, d), GES(sty, d), Ret("ite")>>, n) }
    [] p = "ext" -> ExtForType(<<"Entity">>, d, n)
    [] OTHER -> SchemaCommonProduction(p, sty, d, n)

\* the semantic type a primitive or extension schema type is generated as
\* (<<>>: an unrecognized extension name)
SemanticType(sty) ==
  CASE sty = <<"Boolean">> -> <<"Bool">>
    [] sty = <<"Long">> -> <<"Long">>
    [] sty = <<"String">> -> <<"String">>
    [] sty = <<"Extension", "ipaddr">> -> <<"IPAddr">>
    [] sty = <<"Extension", "decimal">> -> <<"Decimal">>
    [] sty = <<"Extension", "datetime">> -> <<"DateTime">>
    [] sty = <<"Extension", "duration">> -> <<"Duration">>
    [] OTHER -> <<>>

\* panic!("reference to undefined common type: {type_name}")
UndefinedCommonType == "panic: reference to undefined common type"

\* panic!("shouldn't have TypeVariant::Extension with extensions disabled")
ExtensionWhileDisabled == "panic: Extension with extensions disabled"

\* the faults that unwind the whole call stack instead of returning an Err
\* (panic!, unreachable!, unimplemented!, a failed expect or assert)
HardFaults == {"panic", UndefinedCommonType, ExtensionWhileDisabled}

\* one step of reference resolution: CommonTypeRef must be defined;
\* EntityOrCommon is the common type of that name, else the entity type
\* (<<>>: reference to undefined common type)
Dereference(sty) ==
  IF lookup_common_type(sty[2]) # <<>> THEN lookup_common_type(sty[2])[1]
  ELSE IF sty[1] = "EntityOrCommon" THEN <<"Entity", sty[2]>>
  ELSE <<>>

IsReference(sty) == sty[1] \in {"CommonTypeRef", "EntityOrCommon"}

\* (C16 mutant) a resolution that draws from the oracle and spends a level
\* of depth when the reference is to a common type
ThroughReferenceDrawing(fn, sty, d, n) ==
  IF Dereference(sty) = <<>> THEN { Plan(<<Fail(UndefinedCommonType)>>, n) }
  ELSE { Plan(<<Call(fn, Dereference(sty), IF d > 0 THEN d - 1 ELSE 0), RetLast>>,
              Consume(n)) }

\* (C17 mutant) a resolution that reports an undefined common type as a
\* recoverable error
ThroughReferenceRecoverable(fn, sty, d, n) ==
  IF Dereference(sty) = <<>> THEN { Plan(<<Fail("EmptyChoose")>>, n) }
  ELSE { Plan(<<Call(fn, Dereference(sty), d), RetLast>>, n) }

\* the call into the same generator for what a reference names
ThroughReference(fn, sty, d, n) ==
  IF Dereference(sty) = <<>> THEN { Plan(<<Fail(UndefinedCommonType)>>, n) }
  ELSE { Plan(<<Call(fn, Dereference(sty), d), RetLast>>, n) }

\* generate_expr_for_schematype(target_type, max_depth, u) up to the
\* selection of its production (expr.rs 1296-1691)
GenerateExprForSchematypePlans(sty, d, n) ==
  LET terminal == d = 0 \/ n < TerminalThreshold IN
  CASE IsReference(sty) -> ThroughReference("generate_expr_for_schematype", sty, d, n)
    [] sty[1] = "Set" ->
         IF terminal THEN { Plan(<<Ret("set")>>, n) }
         ELSE UNION { SchemaSetProduction(p, sty, d, Consume(n)) : p \in Gen(n, SchemaSetMenu) }
    [] sty[1] \in {"RecDecl", "Rec1"} ->
         IF terminal THEN { Plan(<<Fail("TooDeep")>>, n) }
         ELSE UNION { SchemaRecordProduction(p, sty, d, Consume(n)) : p \in Gen(n, SchemaRecordMenu) }
    [] sty[1] = "Entity" ->
         IF terminal THEN { Plan(<<Ret("var")>>, Consume(n)) }
         ELSE UNION { SchemaEntityProduction(p, sty, d, Consume(n)) : p \in Gen(n, SchemaEntityMenu) }
    [] OTHER ->
         IF SemanticType(sty) = <<>> THEN { Plan(<<Fail("panic")>>, n) }
         ELSE { Plan(<<Call("generate_expr_for_type", SemanticType(sty), d), RetLast>>, n) }

\* (C29 mutant) a helper that takes one more level off the budget for the
\* arguments, without a test
GenerateExtFuncCallForTypePlansDeeper(ty, d, n) ==
  IF arbitrary_for_type(ext_funcs, ty) = {}
  THEN { Plan(<<Fail("EmptyChoose")>>, n) }
  ELSE { Plan([i \in 1..Len(func.parameter_types) |->
                 Call("generate_expr_for_type", func.parameter_types[i], d - 1)]
              \o <<RetExt(func.name, Len(func.parameter_types))>>, Consume(n))
         : func \in DrawFrom(n, arbitrary_for_type(ext_funcs, ty),
                             CHOOSE f \in arbitrary_for_type(ext_funcs, ty) : TRUE) }

(********************* extension-function call helpers *********************)
\* generate_ext_func_call_for_type (expr.rs 1750-1764): one argument per
\* declared parameter, each generated with the same max_depth
GenerateExtFuncCallForTypePlans(ty, d, n) ==
  IF arbitrary_for_type(ext_funcs, ty) = {}
  THEN { Plan(<<Fail("EmptyChoose")>>, n) }
  ELSE { Plan([i \in 1..Len(func.parameter_types) |->
                 Call("generate_expr_for_type", func.parameter_types[i], d)]
              \o <<RetExt(func.name, Len(func.parameter_types))>>, Consume(n))
         : func \in DrawFrom(n, arbitrary_for_type(ext_funcs, ty),
                             CHOOSE f \in arbitrary_for_type(ext_funcs, ty) : TRUE) }

\* generate_ext_func_call_for_schematype (expr.rs 1772-1842)
GenerateExtFuncCallForSchematypePlans(sty, d, n) ==
  CASE IsReference(sty) -> ThroughReference("generate_ext_func_call_for_schematype", sty, d, n)
    [] sty[1] \in {"Set", "RecDecl", "Rec1", "Entity"} -> { Plan(<<Fail("EmptyChoose")>>, n) }
    [] OTHER ->
         IF SemanticType(sty) = <<>> THEN { Plan(<<Fail("panic")>>, n) }
         ELSE { Plan(<<Call("generate_ext_func_call_for_type", SemanticType(sty), d), RetLast>>, n) }

(**************************** value generators *****************************)
\* (C22 mutant) a value generator that asks the expression generator for its
\* long and entity values
GenerateValueForTypePlansViaExpr(ty, d, n) ==
  CASE ty = <<"Bool">> -> { Plan(<<Ret("lit_bool")>>, Consume(n)) }
    [] ty = <<"String">> -> { Plan(<<Ret("lit_string")>>, Consume(n)) }
    [] ty \in {<<"Long">>, <<"Entity">>} ->
         { Plan(<<Call("generate_expr_for_type", ty, d), RetLast>>, n) }
    [] IsSetType(ty) -> { Plan(<<Ret("set")>>, n) }
    [] ty = <<"Record">> -> { Plan(<<Ret("record")>>, n) }
    [] OTHER -> { Plan(<<Fail("ExtensionsDisabled")>>, n) }

\* generate_value_for_type (expr.rs 2205-2279)
GenerateValueForTypePlans(ty, d, n) ==
  CASE ty = <<"Bool">> -> { Plan(<<Ret("lit_bool")>>, Consume(n)) }
    [] ty = <<"Long">> -> { Plan(<<Ret("lit_long")>>, Consume(n)) }
    [] ty = <<"String">> -> { Plan(<<Ret("lit_string")>>, Consume(n)) }
    [] ty = <<"Entity">> -> { LeafPlan(o) : o \in generate_uid(n) }
    [] IsSetType(ty) ->
         IF d = 0 THEN { Plan(<<Ret("set")>>, n) }
         ELSE IF ty = <<"Set">>
         THEN { Plan(<<Loop(0, <<Call("generate_value_for_type", el, d - 1)>>), Ret("set")>>,
                     Consume(n))
                : el \in DrawFrom(n, IF settings.enable_extensions THEN ArbitraryTypes
                                     ELSE ArbitraryNonextensionTypes, <<"Bool">>) }
         ELSE { Plan(<<Loop(0, <<Call("generate_value_for_type", Tail(ty), d - 1)>>), Ret("set")>>,
                     n) }
    [] ty = <<"Record">> ->
         IF d = 0 THEN { Plan(<<Ret("record")>>, n) }
         ELSE { Plan(<<Loop(0, <<Key("schema_attr"),
                                 CallT("generate_value_for_schematype", d - 1, ""),
                                 Insert("value")>>),
                       Ret("record")>>, n) }
    [] OTHER -> { Plan(<<Fail("ExtensionsDisabled")>>, n) }

\* (C15 mutant) declared attributes of a record value where an optional one
\* is left to u.ratio(1, 2) even when its name is already a key
RECURSIVE DeclaredValueAttributesCoinOnly(_, _)
DeclaredValueAttributesCoinOnly(attrs, d) ==
  IF attrs = <<>> THEN <<>>
  ELSE LET a == Head(attrs)
           body == <<Call("generate_value_for_schematype", a.ty, d - 1), DeclaredKey(a.name),
                     Insert("declared")>>
       IN (IF a.required THEN body ELSE <<Maybe(body)>>)
          \o DeclaredValueAttributesCoinOnly(Tail(attrs), d)

\* the declared attributes of a record value: required ones always, optional
\* ones when already present or on u.ratio(1, 2)
RECURSIVE DeclaredValueAttributes(_, _)
DeclaredValueAttributes(attrs, d) ==
  IF attrs = <<>> THEN <<>>
  ELSE LET a == Head(attrs)
           body == <<Call("generate_value_for_schematype", a.ty, d - 1), DeclaredKey(a.name),
                     Insert("declared")>>
       IN (IF a.required THEN body ELSE <<MaybeUnlessPresent(a.name, body)>>)
          \o DeclaredValueAttributes(Tail(attrs), d)

\* generate_value_for_schematype (expr.rs 2282-2421)
GenerateValueForSchematypePlans(sty, d, n) ==
  CASE IsReference(sty) -> ThroughReference("generate_value_for_schematype", sty, d, n)
    [] sty[1] \in {"Boolean", "Long", "String"} ->
         { Plan(<<Call("generate_value_for_type", SemanticType(sty), d), RetLast>>, n) }
    [] sty[1] = "Set" ->
         IF d = 0 THEN { Plan(<<Ret("set")>>, n) }
         ELSE { Plan(<<Loop(0, <<Call("generate_value_for_schematype", Tail(sty), d - 1)>>),
                       Ret("set")>>, n) }
    [] sty[1] \in {"RecDecl", "Rec1"} ->
         IF d = 0 THEN { Plan(<<Fail("TooDeep")>>, n) }
         ELSE { Plan((IF AdditionalAttributes(sty)
                      THEN <<Loop(0, <<Key("schema_attr"),
                                       CallT("generate_value_for_schematype", d - 1, ""),
                                       Insert("additional")>>)>>
                      ELSE <<>>)
                     \o DeclaredValueAttributes(RecordAttributes(sty), d) \o <<Ret("record")>>, n) }
    [] sty[1] = "Entity" -> { LeafPlan(o) : o \in arbitrary_uid_with_type(n) }
    [] OTHER -> { Plan(<<Fail("ExtensionsDisabled")>>, n) }

(*********************** attribute-value generators ************************)
\* generate_attr_value_for_type (expr.rs 1906-1992)
GenerateAttrValueForTypePlans(ty, d, n) ==
  CASE ty = <<"Bool">> -> { Plan(<<Ret("lit_bool")>>, Consume(n)) }
    [] ty = <<"Long">> -> { Plan(<<Ret("lit_long")>>, Consume(n)) }
    [] ty = <<"String">> -> { Plan(<<Ret("lit_string")>>, Consume(n)) }
    [] ty = <<"Entity">> -> { LeafPlan(o) : o \in generate_uid(n) }
    [] ty \in ExtensionTypes ->
         IF d = 0 THEN { Plan(<<Fail("TooDeep")>>, n) }
         ELSE arbitrary_ext_constructor_call_for_type(ty, n)
    [] IsSetType(ty) ->
         IF d = 0 THEN { Plan(<<Ret("set")>>, n) }
         ELSE IF ty = <<"Set">>
         THEN { Plan(<<Loop(0, <<Call("generate_attr_value_for_type", el, d - 1)>>), Ret("set")>>,
                     Consume(n))
                : el \in DrawFrom(n, IF settings.enable_extensions THEN ArbitraryTypes
                                     ELSE ArbitraryNonextensionTypes, <<"Bool">>) }
         ELSE { Plan(<<Loop(0, <<Call("generate_attr_value_for_type", Tail(ty), d - 1)>>),
                       Ret("set")>>, n) }
    [] OTHER ->
         IF d = 0 THEN { Plan(<<Ret("record")>>, n) }
         ELSE { Plan(<<Loop(0, <<Key("schema_attr"),
                                 CallT("generate_attr_value_for_schematype", d - 1, ""),
                                 Insert("value")>>),
                       Ret("record")>>, n) }

\* the declared attributes of a record attribute value: required ones
\* always, optional ones when already present or on u.ratio(1, 2)
RECURSIVE DeclaredAttrValueAttributes(_, _)
DeclaredAttrValueAttributes(attrs, d) ==
  IF attrs = <<>> THEN <<>>
  ELSE LET a == Head(attrs)
           body == <<Call("generate_attr_value_for_schematype", a.ty, d - 1),
                     DeclaredKey(a.name), Insert("declared")>>
       IN (IF a.required THEN body ELSE <<MaybeUnlessPresent(a.name, body)>>)
          \o DeclaredAttrValueAttributes(Tail(attrs), d)

\* generate_attr_value_for_schematype (expr.rs 2028-2188)
GenerateAttrValueForSchematypePlans(sty, d, n) ==
  CASE IsReference(sty) -> ThroughReference("generate_attr_value_for_schematype", sty, d, n)
    [] sty[1] \in {"Boolean", "Long", "String"} ->
         { Plan(<<Call("generate_attr_value_for_type", SemanticType(sty), d), RetLast>>, n) }
    [] sty[1] = "Set" ->
         IF d = 0 THEN { Plan(<<Ret("set")>>, n) }
         ELSE { Plan(<<Loop(0, <<Call("generate_attr_value_for_schematype", Tail(sty), d - 1)>>),
                       Ret("set")>>, n) }
    [] sty[1] \in {"RecDecl", "Rec1"} ->
         IF d = 0 THEN { Plan(<<Fail("TooDeep")>>, n) }
         ELSE { Plan((IF AdditionalAttributes(sty)
                      THEN <<Loop(0, <<Key("schema_attr"),
                                       CallT("generate_attr_value_for_schematype", d - 1, ""),
                                       Insert("additional")>>)>>
                      ELSE <<>>)
                     \o DeclaredAttrValueAttributes(RecordAttributes(sty), d)
                     \o <<Ret("record")>>, n) }
    [] sty[1] = "Entity" -> { LeafPlan(o) : o \in arbitrary_uid_with_type(n) }
    [] OTHER ->
         IF ~settings.enable_extensions THEN { Plan(<<Fail(ExtensionWhileDisabled)>>, n) }
         ELSE IF SemanticType(sty) = <<>> THEN { Plan(<<Fail("panic")>>, n) }
         ELSE { Plan(<<Call("generate_attr_value_for_type", SemanticType(sty), d), RetLast>>, n) }

(******************************* frames ************************************)
\* a call of generator fn for type ty with budget d: its remaining
\* instructions, the tracked kinds of the sub-expressions built so far, the
\* last sub-result, the record under construction, the drawn key and types,
\* the name unknown_pool.alloc returned (0: none)
Frame(fn, ty, d) ==
  [fn |-> fn, ty |-> ty, d |-> d, todo |-> <<Enter>>, acc |-> {}, last |-> NoValue,
   map |-> <<>>, key |-> "", t1 |-> <<>>, name |-> 0]

Top == stack[Len(stack)]

Running == stack # <<>>

NextIns == Head(Top.todo)

\* the stack with its top frame replaced
WithTop(f) == [stack EXCEPT ![Len(stack)] = f]

\* (C9 mutant) an insert that keeps the entry already under the key
HashMapInsertAppend(map, key, origin) == map \o << [key |-> key, origin |-> origin] >>

\* HashMap::insert: an entry of the same key is replaced
HashMapInsert(map, key, origin) ==
  SelectSeq(map, LAMBDA e : e.key # key) \o << [key |-> key, origin |-> origin] >>

\* the keys of a map are pairwise distinct
DistinctKeys(map) == \A i, j \in DOMAIN map : map[i].key = map[j].key => i = j

\* (C28 mutant) a get_attr node built over the generated base as it is
GetAttrBaseAsGenerated(e) == e.kind

\* the base of the get_attr node of generate_expr (expr.rs 232-239): a
\* string literal s is replaced by the record {s: s}
GetAttrBase(e) == IF e.kind = "lit_string" THEN "record" ELSE e.kind

\* the node the production's last instruction builds from frame f.
\* Expr::record(..).expect(..) panics on a repeated key.
BuildNode(f, ins) ==
  CASE ins.x = "record" /\ ~DistinctKeys(f.map) -> Err("panic")
    [] ins.x = "ext" ->
         Ok("ext", f.acc \cup {"ext"}
                   \cup (IF CallMatchesRegistry(ext_funcs, ins.fn, ins.n) THEN {} ELSE {"badcall"}))
    [] ins.fn = "last" -> Ok(f.last.kind, f.acc)
    [] ins.x = "get_attr" /\ ins.fn = "wrap" ->
         Ok("get_attr", f.acc \cup (IF GetAttrBase(f.last) = "lit_string" THEN {"strbase"} ELSE {}))
    [] OTHER -> Ok(ins.x, f.acc \cup ({ins.x} \cap TrackedKinds))

\* UnknownPool::alloc names the entry it adds with a name no entry has
FreshName(pool) == Len(pool) + 1

\* the instructions that read the sub-expression returned last (its kind is
\* kept for them only; every instruction moves it into the node being built)
ReadsLast(ins) == ins.op = "alloc" \/ (ins.op = "ret" /\ ins.fn \in {"wrap", "last"})

\* (C1 mutant) a caller that starts over when a sub-call fails instead of
\* returning the error
ReturnRetrying(v) ==
  IF Len(stack) = 1
  THEN /\ stack' = <<>>
       /\ result' = v
  ELSE LET caller == stack[Len(stack) - 1] IN
       /\ stack' = SubSeq(stack, 1, Len(stack) - 2)
                   \o << IF v.ok
                         THEN [caller EXCEPT !.acc = @ \cup v.has,
                                             !.last = IF ReadsLast(Head(caller.todo))
                                                      THEN Ok(v.kind, {}) ELSE NoValue]
                         ELSE [caller EXCEPT !.todo = <<Enter>>] >>
       /\ UNCHANGED result

\* the stack and the result after the top frame returns v to its caller:
\* a value is kept by the caller, an error makes the caller return it (`?`)
Return(v) ==
  IF Len(stack) = 1
  THEN /\ stack' = <<>>
       /\ result' = v
  ELSE LET caller == stack[Len(stack) - 1] IN
       /\ stack' = SubSeq(stack, 1, Len(stack) - 2)
                   \o << IF v.ok
                         THEN [caller EXCEPT !.acc = @ \cup v.has,
                                             !.last = IF ReadsLast(Head(caller.todo))
                                                      THEN Ok(v.kind, {}) ELSE NoValue]
                         ELSE [caller EXCEPT !.todo = <<Fail(v.err)>>] >>
       /\ UNCHANGED result

(******************************* actions ***********************************)
\* the entry of a frame selects a production (or decides an early return)
TakePlan(o) ==
  /\ stack' = WithTop([Top EXCEPT !.todo = o.todo])
  /\ ulen' = o.u
  /\ unk_drew' = (unk_drew \/ o.drew)

\* generate_expr (expr.rs 60-265)
GenerateExpr ==
  /\ Running /\ NextIns.op = "enter" /\ Top.fn = "generate_expr"
  /\ \E o \in GenerateExprPlans(Top.d, ulen) : TakePlan(o)
  /\ UNCHANGED <<settings, ext_funcs, entry, placeholders, unknown_pool, result>>

\* generate_expr_for_type (expr.rs 272-1285)
GenerateExprForType ==
  /\ Running /\ NextIns.op = "enter" /\ Top.fn = "generate_expr_for_type"
  /\ \E o \in GenerateExprForTypePlans(Top.ty, Top.d, ulen) : TakePlan(o)
  /\ UNCHANGED <<settings, ext_funcs, entry, placeholders, unknown_pool, result>>

\* generate_expr_for_schematype (expr.rs 1296-1691)
GenerateExprForSchematype ==
  /\ Running /\ NextIns.op = "enter" /\ Top.fn = "generate_expr_for_schematype"
  /\ \E o \in GenerateExprForSchematypePlans(Top.ty, Top.d, ulen) : TakePlan(o)
  /\ UNCHANGED <<settings, ext_funcs, entry, placeholders, unknown_pool, result>>

\* generate_ext_func_call_for_type (expr.rs 1750-1764)
GenerateExtFuncCallForType ==
  /\ Running /\ NextIns.op = "enter" /\ Top.fn = "generate_ext_func_call_for_type"
  /\ \E o \in GenerateExtFuncCallForTypePlans(Top.ty, Top.d, ulen) : TakePlan(o)
  /\ UNCHANGED <<settings, ext_funcs, entry, placeholders, unknown_pool, result>>

\* generate_ext_func_call_for_schematype (expr.rs 1772-1842)
GenerateExtFuncCallForSchematype ==
  /\ Running /\ NextIns.op = "enter" /\ Top.fn = "generate_ext_func_call_for_schematype"
  /\ \E o \in GenerateExtFuncCallForSchematypePlans(Top.ty, Top.d, ulen) : TakePlan(o)
  /\ UNCHANGED <<settings, ext_funcs, entry, placeholders, unknown_pool, result>>

\* generate_value_for_type (expr.rs 2205-2279)
GenerateValueForType ==
  /\ Running /\ NextIns.op = "enter" /\ Top.fn = "generate_value_for_type"
  /\ \E o \in GenerateValueForTypePlans(Top.ty, Top.d, ulen) : TakePlan(o)
  /\ UNCHANGED <<settings, ext_funcs, entry, placeholders, unknown_pool, result>>

\* generate_value_for_schematype (expr.rs 2282-2421)
GenerateValueForSchematype ==
  /\ Running /\ NextIns.op = "enter" /\ Top.fn = "generate_value_for_schematype"
  /\ \E o \in GenerateValueForSchematypePlans(Top.ty, Top.d, ulen) : TakePlan(o)
  /\ UNCHANGED <<settings, ext_funcs, entry, placeholders, unknown_pool, result>>

\* generate_attr_value_for_type (expr.rs 1906-1992)
GenerateAttrValueForType ==
  /\ Running /\ NextIns.op = "enter" /\ Top.fn = "generate_attr_value_for_type"
  /\ \E o \in GenerateAttrValueForTypePlans(Top.ty, Top.d, ulen) : TakePlan(o)
  /\ UNCHANGED <<settings, ext_funcs, entry, placeholders, unknown_pool, result>>

\* generate_attr_value_for_schematype (expr.rs 2028-2188)
GenerateAttrValueForSchematype ==
  /\ Running /\ NextIns.op = "enter" /\ Top.fn = "generate_attr_value_for_schematype"
  /\ \E o \in GenerateAttrValueForSchematypePlans(Top.ty, Top.d, ulen) : TakePlan(o)
  /\ UNCHANGED <<settings, ext_funcs, entry, placeholders, unknown_pool, result>>

\* `u.arbitrary::<Type>()` / `Type::arbitrary_nonextension(u)` kept for the
\* call that follows
StepDrawTy ==
  /\ Running /\ NextIns.op = "drawTy"
  /\ \E ty \in DrawFrom(ulen, IF NextIns.x = "any" THEN ArbitraryTypes
                                ELSE ArbitraryNonextensionTypes, <<"Bool">>) :
       stack' = WithTop([Top EXCEPT !.todo = Tail(@), !.t1 = ty])
  /\ ulen' = Consume(ulen)
  /\ UNCHANGED <<settings, ext_funcs, entry, placeholders, unknown_pool, result, unk_drew>>

\* a call for the type drawn last
StepCallT ==
  /\ Running /\ NextIns.op = "callT"
  /\ stack' = WithTop([Top EXCEPT !.todo = Tail(@), !.t1 = <<>>])
              \o << Frame(NextIns.fn, IF NextIns.x = "set_of" THEN set_of(Top.t1) ELSE Top.t1,
                          NextIns.d) >>
  /\ UNCHANGED <<settings, ext_funcs, entry, placeholders, ulen, unknown_pool, result, unk_drew>>

\* an optional declared attribute: generated when it is already a key of
\* the map (value generators only) or when u.ratio(1, 2) says so
StepMaybe ==
  /\ Running /\ NextIns.op = "maybe"
  /\ IF NextIns.x = "contains_key" /\ (\E i \in DOMAIN Top.map : Top.map[i].key = NextIns.fn)
     THEN /\ stack' = WithTop([Top EXCEPT !.todo = NextIns.body \o Tail(@)])
          /\ UNCHANGED ulen
     ELSE /\ ulen' = Consume(ulen)
          /\ \E include \in Ratio(ulen) :
               stack' = WithTop([Top EXCEPT !.todo = IF include THEN NextIns.body \o Tail(@)
                                                     ELSE Tail(@)])
  /\ UNCHANGED <<settings, ext_funcs, entry, placeholders, unknown_pool, result, unk_drew>>

\* an extension call on literals built in place as an argument
StepNode ==
  /\ Running /\ NextIns.op = "node"
  /\ stack' = WithTop([Top EXCEPT !.todo = Tail(@),
                                  !.acc = @ \cup BuildNode(Top, NextIns).has])
  /\ UNCHANGED <<settings, ext_funcs, entry, placeholders, ulen, unknown_pool, result, unk_drew>>

\* (C12 mutant) an allocation that reuses the slot of the newest entry
StepAllocOverwriting ==
  /\ Running /\ NextIns.op = "alloc"
  /\ unknown_pool' = (IF unknown_pool = <<>> THEN <<>>
                      ELSE SubSeq(unknown_pool, 1, Len(unknown_pool) - 1))
                     \o << [name |-> FreshName(unknown_pool), ty |-> Top.ty,
                            v |-> Top.last.kind] >>
  /\ stack' = WithTop([Top EXCEPT !.todo = Tail(@), !.last = NoValue,
                                  !.name = FreshName(unknown_pool)])
  /\ UNCHANGED <<settings, ext_funcs, entry, placeholders, ulen, result, unk_drew>>

\* let name = unknown_pool.alloc(target_type, v): the pool records the type
\* and the value (kept as its kind) under the fresh name it returns
StepAlloc ==
  /\ Running /\ NextIns.op = "alloc"
  /\ unknown_pool' = Append(unknown_pool, [name |-> FreshName(unknown_pool), ty |-> Top.ty,
                                           v |-> Top.last.kind])
  /\ stack' = WithTop([Top EXCEPT !.todo = Tail(@), !.last = NoValue,
                                  !.name = FreshName(unknown_pool)])
  /\ UNCHANGED <<settings, ext_funcs, entry, placeholders, ulen, result, unk_drew>>

\* `self.f(ty, d, u)`: a new frame on the call stack
StepCall ==
  /\ Running /\ NextIns.op = "call"
  /\ stack' = WithTop([Top EXCEPT !.todo = Tail(@)])
              \o << Frame(NextIns.fn, NextIns.ty, NextIns.d) >>
  /\ UNCHANGED <<settings, ext_funcs, entry, placeholders, ulen, unknown_pool, result, unk_drew>>

\* a draw from the oracle, the constant pool or the schema
StepDraw ==
  /\ Running /\ NextIns.op = "draw"
  /\ IF (NextIns.x = "entity_types" /\ EntityTypes = <<>>)
        \/ (NextIns.x = "schema_attr" /\ arbitrary_attr = {})
        \/ (NextIns.x = "string_constant" /\ StringConstants = {})
     THEN /\ stack' = WithTop([Top EXCEPT !.todo = <<Fail("EmptyChoose")>>])
          /\ UNCHANGED ulen
     ELSE /\ stack' = WithTop([Top EXCEPT !.todo = Tail(@)])
          /\ ulen' = Consume(ulen)
  /\ UNCHANGED <<settings, ext_funcs, entry, placeholders, unknown_pool, result, unk_drew>>

\* the head of u.arbitrary_loop(min 0, max settings.max_width): below the cap
\* one bool is drawn to decide whether the body runs once more
StepLoop ==
  /\ Running /\ NextIns.op = "loop"
  /\ IF NextIns.n < settings.max_width
     THEN /\ ulen' = Consume(ulen)
          /\ \E keep_going \in ArbitraryBool(ulen) :
               stack' = WithTop([Top EXCEPT !.todo =
                          IF keep_going
                          THEN NextIns.body \o <<Loop(NextIns.n + 1, NextIns.body)>> \o Tail(@)
                          ELSE Tail(@)])
     ELSE /\ stack' = WithTop([Top EXCEPT !.todo = Tail(@)])
          /\ UNCHANGED ulen
  /\ UNCHANGED <<settings, ext_funcs, entry, placeholders, unknown_pool, result, unk_drew>>

\* the key of a record entry: schema.arbitrary_attr(u) (the attribute's type
\* is kept when the value is generated for it), a string constant, an
\* arbitrary String, or the name of a declared attribute (no draw)
StepKey ==
  /\ Running /\ NextIns.op = "key"
  /\ CASE NextIns.x = "declared" ->
            /\ stack' = WithTop([Top EXCEPT !.todo = Tail(@), !.key = NextIns.fn])
            /\ UNCHANGED ulen
       [] NextIns.x = "schema_attr" ->
            IF arbitrary_attr = {}
            THEN /\ stack' = WithTop([Top EXCEPT !.todo = <<Fail("EmptyChoose")>>])
                 /\ UNCHANGED ulen
            ELSE /\ \E a \in DrawFrom(ulen, arbitrary_attr, SchemaAttributes[1]) :
                      stack' = WithTop([Top EXCEPT !.todo = Tail(@), !.key = a.name,
                                          !.t1 = IF Top.todo[2].op = "callT" THEN a.ty ELSE <<>>])
                 /\ ulen' = Consume(ulen)
       [] NextIns.x = "string_constant" ->
            /\ \E k \in DrawFrom(ulen, StringConstants, "name") :
                 stack' = WithTop([Top EXCEPT !.todo = Tail(@), !.key = k])
            /\ ulen' = Consume(ulen)
       [] OTHER ->
            /\ \E k \in DrawFrom(ulen, ArbitraryStrings, "") :
                 stack' = WithTop([Top EXCEPT !.todo = Tail(@), !.key = k])
            /\ ulen' = Consume(ulen)
  /\ UNCHANGED <<settings, ext_funcs, entry, placeholders, unknown_pool, result, unk_drew>>

\* (C21 mutant) an insert whose effect on an equal key depends on something
\* other than the oracle (a per-process hash seed)
StepInsertSeeded ==
  /\ Running /\ NextIns.op = "insert"
  /\ \E keep \in BOOLEAN :
       stack' = WithTop([Top EXCEPT !.todo = Tail(@), !.key = "", !.t1 = <<>>,
                                    !.map = IF keep /\ Top.key \in { @[i].key : i \in DOMAIN @ }
                                            THEN @ ELSE HashMapInsert(@, Top.key, NextIns.x)])
  /\ UNCHANGED <<settings, ext_funcs, entry, placeholders, ulen, unknown_pool, result, unk_drew>>

\* r.insert(key, value)
StepInsert ==
  /\ Running /\ NextIns.op = "insert"
  /\ stack' = WithTop([Top EXCEPT !.todo = Tail(@), !.key = "", !.t1 = <<>>,
                                  !.map = HashMapInsert(@, Top.key, NextIns.x)])
  /\ UNCHANGED <<settings, ext_funcs, entry, placeholders, ulen, unknown_pool, result, unk_drew>>

\* Ok(node): the frame returns the node its production builds
StepRet ==
  /\ Running /\ NextIns.op = "ret"
  /\ Return(BuildNode(Top, NextIns))
  /\ placeholders' = IF NextIns.x = "unknown" THEN Append(placeholders, Top.name)
                     ELSE placeholders
  /\ UNCHANGED <<settings, ext_funcs, entry, ulen, unknown_pool, unk_drew>>

\* Err(e), or the `?` on a failed sub-call: the frame returns the error
StepFail ==
  /\ Running /\ NextIns.op = "fail"
  /\ Return(Err(NextIns.x))
  /\ UNCHANGED <<settings, ext_funcs, entry, placeholders, ulen, unknown_pool, unk_drew>>

(****************************** the system *********************************)
Settings ==
  [max_depth : {MaxDepthBound}, max_width : {MaxWidthBound}, enable_like : BOOLEAN,
   enable_extensions : BOOLEAN, enable_unknowns : BOOLEAN, enable_arbitrary_func_call : BOOLEAN]

\* the schema types a top-level call is made for
TargetSchemaTypes ==
  { <<"Boolean">>, <<"Long">>, <<"String">>, <<"Set", "String">>, <<"RecDecl", "Meta">>,
    <<"RecDecl", "Closed">>, <<"Entity", "User">>, <<"Extension", "ipaddr">>,
    <<"CommonTypeRef", "Count">>, <<"EntityOrCommon", "Meta">>, <<"EntityOrCommon", "User">>,
    <<"CommonTypeRef", "Missing">> }

\* the generators that produce literal-only data
ValueGenerators ==
  {"generate_value_for_type", "generate_value_for_schematype",
   "generate_attr_value_for_type", "generate_attr_value_for_schematype"}

\* the generators directed by a schema type
SchematypeGenerators ==
  {"generate_expr_for_schematype", "generate_ext_func_call_for_schematype",
   "generate_value_for_schematype", "generate_attr_value_for_schematype"}

Entries ==
  [fn : {"generate_expr"}, ty : {<<>>}, d : 0..MaxDepthBound]
  \cup [fn : {"generate_expr_for_type"}, ty : TargetTypes, d : 0..MaxDepthBound]
  \cup [fn : {"generate_expr_for_schematype"}, ty : TargetSchemaTypes, d : 0..MaxDepthBound]
  \cup [fn : {"generate_value_for_type", "generate_attr_value_for_type"}, ty : TargetTypes,
        d : 0..MaxDepthBound]
  \cup [fn : SchematypeGenerators \ {"generate_expr_for_schematype"}, ty : TargetSchemaTypes,
        d : 0..MaxDepthBound]

NotDone == [ok |-> FALSE, err |-> "running", kind |-> "", has |-> {}]

Done == stack = <<>>

\* the settings a top-level call of fn is explored with: every value of every
\* flag its call tree reads.  generate_expr calls only itself and the literal
\* generators (it never reaches should_generate_unknown); the typed
\* generators never read enable_arbitrary_func_call; the value generators
\* read enable_extensions only.
SettingsFor(fn) ==
  { s \in Settings :
      CASE fn = "generate_expr" -> ~s.enable_unknowns
        [] fn \in ValueGenerators ->
             ~s.enable_arbitrary_func_call /\ ~s.enable_unknowns /\ ~s.enable_like
        [] OTHER -> ~s.enable_arbitrary_func_call }

\* AvailableExtensionFunctions::create(settings): the registry holds the
\* extension functions when extensions are enabled and is empty otherwise
AvailableExtensionFunctions(s) == IF s.enable_extensions THEN AllExtensionFunctions ELSE <<>>

Init ==
  /\ entry \in Entries
  /\ settings \in SettingsFor(entry.fn)
  /\ ext_funcs = AvailableExtensionFunctions(settings)
  /\ ulen \in {0, MaxULen}
  /\ stack = << Frame(entry.fn, entry.ty, entry.d) >>
  /\ unknown_pool = <<>>
  /\ result = NotDone
  /\ unk_drew = FALSE
  /\ placeholders = <<>>

Next ==
  \/ GenerateExpr
  \/ GenerateExprForType
  \/ GenerateExprForSchematype
  \/ GenerateExtFuncCallForType
  \/ GenerateExtFuncCallForSchematype
  \/ GenerateValueForType
  \/ GenerateValueForSchematype
  \/ GenerateAttrValueForType
  \/ GenerateAttrValueForSchematype
  \/ StepDrawTy
  \/ StepCallT
  \/ StepMaybe
  \/ StepNode
  \/ StepAlloc
  \/ StepCall
  \/ StepDraw
  \/ StepLoop
  \/ StepKey
  \/ StepInsert
  \/ StepRet
  \/ StepFail

Spec == Init /\ [][Next]_vars

(******************* should_generate_unknown on its own ********************)
\* largest settings.max_depth the decision is explored with
MaxConfiguredDepth == 4

UnknownSettings ==
  [max_depth : 0..MaxConfiguredDepth, max_width : {MaxWidthBound}, enable_like : {FALSE},
   enable_extensions : {FALSE}, enable_unknowns : BOOLEAN, enable_arbitrary_func_call : {FALSE}]

\* a call of should_generate_unknown(d, u) on an oracle whose next
\* int_in_range yields entry.choice (its low bound once it is exhausted)
InitUnknown ==
  /\ settings \in UnknownSettings
  /\ ext_funcs = AvailableExtensionFunctions(settings)
  /\ entry \in [fn : {"should_generate_unknown"}, ty : {<<>>}, d : 0..settings.max_depth,
                choice : 0..settings.max_depth]
  /\ ulen \in {0, 1}
  /\ ulen = 0 => entry.choice = 0
  /\ stack = << Frame(entry.fn, entry.ty, entry.d) >>
  /\ unknown_pool = <<>>
  /\ result = NotDone
  /\ unk_drew = FALSE
  /\ placeholders = <<>>

\* should_generate_unknown (expr.rs 2570-2578) returns its decision
ShouldGenerateUnknown ==
  /\ Running /\ NextIns.op = "enter" /\ Top.fn = "should_generate_unknown"
  /\ \E s \in ShouldGenerateUnknownOn(Top.d, ulen, {entry.choice}) :
       /\ result' = Ok(IF s.fire THEN "true" ELSE "false", {})
       /\ ulen' = s.u
       /\ unk_drew' = s.drew
  /\ stack' = <<>>
  /\ UNCHANGED <<settings, ext_funcs, entry, placeholders, unknown_pool>>

NextUnknown == ShouldGenerateUnknown

SpecUnknown == InitUnknown /\ [][NextUnknown]_vars

(***************************************************************************)
(* C1.  Termination and call-stack depth.                                  *)
(***************************************************************************)
\* the length of the reference chain a schema type starts
RECURSIVE RefChain(_)
RefChain(sty) ==
  IF IsReference(sty) /\ Dereference(sty) # <<>> THEN 1 + RefChain(Dereference(sty)) ELSE 0

\* the longest reference chain of the types a call is made for
MaxRefChain ==
  CHOOSE r \in 0..Cardinality(DOMAIN CommonTypes) + 1 :
    /\ \A sty \in TargetSchemaTypes : RefChain(sty) <= r
    /\ \E sty \in TargetSchemaTypes : RefChain(sty) = r

\* the deepest stack of a call with max_depth = 0: the reference chain, the
\* schema-typed generator, the typed generator, the value generator
StackSlack == MaxRefChain + 3

\* an upper bound on the instructions one production leaves to run
EnterCost == 100

\* the steps an instruction may still take in its own frame
InsCost(ins) ==
  CASE ins.op = "enter" -> EnterCost
    [] ins.op = "loop" -> 1 + (settings.max_width - ins.n) * (Len(ins.body) + 1)
    [] ins.op = "maybe" -> 1 + Len(ins.body)
    [] OTHER -> 1

RECURSIVE TodoCost(_)
TodoCost(todo) == IF todo = <<>> THEN 0 ELSE InsCost(Head(todo)) + TodoCost(Tail(todo))

\* the rank of a stack: the costs of its frames, bottom first
Rank(stk) == [i \in DOMAIN stk |-> TodoCost(stk[i].todo)]

\* lexicographic order on ranks, a proper prefix being smaller; well-founded
\* on stacks of bounded depth because every cost is a bounded natural
RankLess(a, b) ==
  \E i \in 1..Len(b) :
    /\ \A j \in 1..(i - 1) : j <= Len(a) /\ a[j] = b[j]
    /\ (i = Len(a) + 1 \/ (i <= Len(a) /\ a[i] < b[i]))

\* a running stack can take its next step
CanStep(stk) ==
  stk # <<>> =>
    /\ stk[Len(stk)].todo # <<>>
    /\ Head(stk[Len(stk)].todo).op \in
         {"enter", "call", "callT", "drawTy", "draw", "loop", "key", "insert", "maybe", "node",
          "alloc", "ret", "fail"}

\* the three entry points the termination property is stated for
ExpressionGenerators ==
  {"generate_expr", "generate_expr_for_type", "generate_expr_for_schematype"}

LiteralOrVarKinds == {"var", "lit_bool", "lit_long", "lit_string", "lit_uid"}

\* C2: a generate_expr(0, u) call makes no generator call of its own (its
\* frame is the only one the stack ever holds) and what it returns is a
\* literal or a variable, whatever the oracle holds.
C2_DepthZeroIsLiteralOrVar ==
  (entry.fn = "generate_expr" /\ entry.d = 0) =>
    /\ Len(stack) <= 1
    /\ (Done => result.ok /\ result.kind \in LiteralOrVarKinds /\ result.has = {})

\* generate_expr(0, u) returned a literal with bytes to draw from
C2_Witness ==
  /\ entry.fn = "generate_expr" /\ entry.d = 0
  /\ Done /\ result.ok /\ result.kind = "lit_long" /\ ulen > 0


\* the raised error e is about to unwind the top frame of stk
Raised(stk, e) == stk # <<>> /\ stk[Len(stk)].todo # <<>> /\ Head(stk[Len(stk)].todo) = Fail(e)

\* node kind k occurs in the returned expression or in one under construction
Built(k) == k \in result.has \/ \E i \in DOMAIN stack : k \in stack[i].acc

IsEntry(fn, ty, d) == entry.fn = fn /\ entry.ty = ty /\ entry.d = d

\* C3 as stated: generate_expr_for_type(Long, 0) returns a long literal for
\* any settings
C3_LongLiteralForAnySettings ==
  (IsEntry("generate_expr_for_type", <<"Long">>, 0) /\ Done) => result = Ok("lit_long", {})

\* C3: generate_expr_for_type(Long, 0) makes no recursive expression call; it
\* returns a long literal when enable_unknowns is off, and when it is on the
\* unknown decision always fires at budget settings.max_depth - 0 = chance
\* and the answer is an unknown placeholder
C3_LongAtDepthZero ==
  IsEntry("generate_expr_for_type", <<"Long">>, 0) =>
    /\ \A i \in DOMAIN stack :
         stack[i].fn \in {"generate_expr_for_type", "generate_value_for_type"}
         /\ (i > 1 => stack[i].fn = "generate_value_for_type")
    /\ Done => result = IF settings.enable_unknowns THEN Ok("unknown", {"unknown"})
                        ELSE Ok("lit_long", {})

C3_Witness ==
  /\ IsEntry("generate_expr_for_type", <<"Long">>, 0) /\ Done
  /\ settings.enable_unknowns /\ result.kind = "unknown" /\ Len(unknown_pool) = 1

\* C4: with enable_unknowns off no unknown node is built, the unknown pool
\* stays empty and the should-inject decision draws nothing from the oracle
C4_NoUnknownsWhenDisabled ==
  ~settings.enable_unknowns => /\ ~Built("unknown")
                               /\ unknown_pool = <<>>
                               /\ ~unk_drew

C4_Witness ==
  /\ ~settings.enable_unknowns /\ entry.fn = "generate_expr_for_schematype" /\ entry.d = 2
  /\ Done /\ result.ok /\ result.kind = "ite" /\ unknown_pool = <<>>

\* the draws for which the decision fires at remaining budget d
FiringDraws(d) == { c \in 0..settings.max_depth : UnknownFires(d, c) }

\* C5: with enable_unknowns on, a draw that fires the unknown decision at
\* some remaining budget fires it at every smaller one, and for a configured
\* max_depth M > 1 the draws firing at budget M are a strict subset of those
\* firing at budget 1
C5_UnknownInjectionMonotone ==
  (settings.enable_unknowns /\ Done) =>
    /\ result.kind = "true" => \A d \in 0..entry.d : UnknownFires(d, entry.choice)
    /\ result.kind = "false" => \A d \in entry.d..settings.max_depth : ~UnknownFires(d, entry.choice)
    /\ settings.max_depth > 1 =>
         /\ FiringDraws(settings.max_depth) \subseteq FiringDraws(1)
         /\ FiringDraws(settings.max_depth) # FiringDraws(1)

C5_Witness ==
  /\ settings.enable_unknowns /\ settings.max_depth > 1 /\ Done
  /\ entry.d = 1 /\ result.kind = "true" /\ unk_drew
  /\ ~UnknownFires(settings.max_depth, entry.choice)

C7_ExtensionPathsFailExtensionsDisabled ==
  ~settings.enable_extensions =>
    /\ ~Built("ext")
    /\ (Running /\ NextIns.op \in {"ret", "fail"}
        /\ \/ Top.fn \in {"generate_ext_func_call_for_type",
                          "generate_ext_func_call_for_schematype"}
           \/ Top.fn = "generate_expr_for_type" /\ Top.ty \in ExtensionTypes)
       => NextIns = Fail("ExtensionsDisabled")

\* C8: with enable_arbitrary_func_call off every extension call built names
\* a function of the registry and has that function's declared arity
C8_CallsMatchRegistry == ~settings.enable_arbitrary_func_call => ~Built("badcall")

C8_Witness ==
  /\ ~settings.enable_arbitrary_func_call /\ entry.fn = "generate_expr"
  /\ Done /\ result.ok /\ result.kind = "ext" /\ "badcall" \notin result.has

\* C9: the keys of a record literal under construction are pairwise
\* distinct, a key generated again overwrites its earlier entry, and the
\* record construction never fails on a repeated key
C9_RecordKeysDistinct ==
  [][ /\ \A i \in DOMAIN stack' : DistinctKeys(stack'[i].map)
      /\ result' # Err("panic")
      /\ ~Raised(stack', "panic")
      /\ (Running /\ NextIns.op = "insert" /\ stack' # <<>> /\ Len(stack') = Len(stack)) =>
           LET old == Top.map
               new == stack'[Len(stack')].map
           IN /\ new[Len(new)].key = Top.key
              /\ Len(new) = Len(old) + (IF \E j \in DOMAIN old : old[j].key = Top.key
                                        THEN 0 ELSE 1)
              /\ \A j \in DOMAIN old : old[j].key # Top.key =>
                   \E k \in DOMAIN new : new[k] = old[j] ]_vars

C9_Witness ==
  /\ Running /\ NextIns.op = "insert"
  /\ \E j \in DOMAIN Top.map : Top.map[j].key = Top.key

\* C10 as stated: both type-directed generators fail with TooDeep on a
\* record target at depth 0
C10_RecordAtDepthZeroTooDeep ==
  (Done /\ entry.d = 0
   /\ \/ IsEntry("generate_expr_for_type", <<"Record">>, 0)
      \/ entry.fn = "generate_expr_for_schematype" /\ entry.ty[1] = "RecDecl")
  => result = Err("TooDeep")

\* C10: at depth 0 generate_expr_for_schematype fails with TooDeep on a
\* record target whatever the settings; generate_expr_for_type does so when
\* enable_unknowns is off, and when it is on the unknown decision fires first
\* and the answer is an unknown placeholder of an empty record value
C10_RecordAtDepthZero ==
  (Done /\ entry.d = 0) =>
    /\ (entry.fn = "generate_expr_for_schematype" /\ entry.ty[1] = "RecDecl")
         => result = Err("TooDeep")
    /\ IsEntry("generate_expr_for_type", <<"Record">>, 0)
         => result = IF settings.enable_unknowns THEN Ok("unknown", {"unknown"})
                     ELSE Err("TooDeep")

C10_Witness ==
  /\ Done /\ IsEntry("generate_expr_for_type", <<"Record">>, 0)
  /\ settings.enable_unknowns /\ result = Ok("unknown", {"unknown"})
  /\ unknown_pool = << [name |-> 1, ty |-> <<"Record">>, v |-> "record"] >>


(***************************************************************************)
(* C11.  The unknown short-circuit and the unknown pool.                   *)
(***************************************************************************)
\* the kinds of the values generate_value_for_type returns for a type
ValueKinds(ty) ==
  CASE ty = <<"Bool">> -> {"lit_bool"}
    [] ty = <<"Long">> -> {"lit_long"}
    [] ty = <<"String">> -> {"lit_string"}
    [] ty = <<"Entity">> -> {"lit_uid"}
    [] ty = <<"Record">> -> {"record"}
    [] IsSetType(ty) -> {"set"}
    [] OTHER -> {}

\* the frame on top is about to return the placeholder it allocated
ReturnsPlaceholder == Running /\ NextIns = Ret("unknown")

\* C11: every pool entry was made by a short-circuit for a value of its
\* target type; the placeholders built carry pairwise distinct names that
\* are keys of the pool; a short-circuit that is about to return has made
\* exactly one allocation, recording its target type, and returns the name
\* of that allocation; outside that moment the pool holds as many entries as
\* placeholders were built
C11_PlaceholdersNamePoolEntries ==
  /\ \A i \in DOMAIN placeholders : \E j \in DOMAIN unknown_pool :
       unknown_pool[j].name = placeholders[i]
  /\ \A i, j \in DOMAIN placeholders : placeholders[i] = placeholders[j] => i = j
  /\ \A i, j \in DOMAIN unknown_pool : unknown_pool[i].name = unknown_pool[j].name => i = j
  /\ \A j \in DOMAIN unknown_pool : unknown_pool[j].v \in ValueKinds(unknown_pool[j].ty)
  /\ Len(unknown_pool) = Len(placeholders) + (IF ReturnsPlaceholder THEN 1 ELSE 0)
  /\ ReturnsPlaceholder =>
       /\ Top.fn = "generate_expr_for_type"
       /\ unknown_pool[Len(unknown_pool)].name = Top.name
       /\ unknown_pool[Len(unknown_pool)].ty = Top.ty
       /\ \A i \in DOMAIN placeholders : placeholders[i] # Top.name
  /\ "unknown" \in result.has => placeholders # <<>>

C11_Witness ==
  /\ Done /\ result.ok /\ result.kind # "unknown" /\ "unknown" \in result.has
  /\ Len(placeholders) >= 2 /\ Len(unknown_pool) = Len(placeholders)
  /\ \E i, j \in DOMAIN unknown_pool : unknown_pool[i].ty # unknown_pool[j].ty


(***************************************************************************)
(* C12.  What a generation call may change.                                *)
(***************************************************************************)
\* C12: every step leaves the entries the unknown pool already holds in
\* place and adds at most one behind them; only the allocation of the unknown
\* short-circuit of generate_expr_for_type adds one; the settings and the
\* extension registry never change (the schema, the constant pool and the
\* hierarchy are fixed); a call of generate_expr or of a value or
\* attribute-value generator leaves the pool as it was
C12_PoolAppendOnly ==
  [][ /\ Len(unknown_pool') >= Len(unknown_pool)
      /\ Len(unknown_pool') <= Len(unknown_pool) + 1
      /\ SubSeq(unknown_pool', 1, Len(unknown_pool)) = unknown_pool
      /\ unknown_pool' # unknown_pool =>
           Running /\ Top.fn = "generate_expr_for_type" /\ NextIns.op = "alloc"
      /\ settings' = settings /\ ext_funcs' = ext_funcs /\ entry' = entry
      /\ entry.fn \in {"generate_expr"} \cup ValueGenerators => unknown_pool' = <<>> ]_vars

C12_Witness ==
  /\ Running /\ NextIns.op = "alloc" /\ Len(unknown_pool) >= 2
  /\ Top.fn = "generate_expr_for_type"


(***************************************************************************)
(* C13.  Required and optional attributes of a record literal.             *)
(***************************************************************************)
\* the generators with a record-literal production for a declared record type
RecordLiteralGenerators ==
  {"generate_expr_for_schematype", "generate_attr_value_for_schematype",
   "generate_value_for_schematype"}

\* the frame on top is about to return the record literal of a declared
\* record type
ReturnsRecordLiteral ==
  /\ Running /\ NextIns.op = "ret" /\ NextIns.x = "record"
  /\ Top.fn \in RecordLiteralGenerators /\ Top.ty[1] \in {"RecDecl", "Rec1"}

MapKeys(map) == { map[i].key : i \in DOMAIN map }

AttributesOf(sty) == { RecordAttributes(sty)[i] : i \in DOMAIN RecordAttributes(sty) }

RequiredNames(sty) == { a.name : a \in { b \in AttributesOf(sty) : b.required } }

OptionalNames(sty) == { a.name : a \in { b \in AttributesOf(sty) : ~b.required } }

\* the entry of the map under key k
EntryOf(map, k) == map[CHOOSE i \in DOMAIN map : map[i].key = k]

\* the frame on top is at the test of an optional declared attribute
AtOptionalAttribute == Running /\ NextIns.op = "maybe"

\* the attribute under test is already a key of the map, in a generator
\* that looks (r.contains_key)
AlreadyInserted ==
  /\ Top.fn \in {"generate_attr_value_for_schematype", "generate_value_for_schematype"}
  /\ NextIns.body[2].fn \in MapKeys(Top.map)

\* C13 (as stated): a record literal holds a key for every required
\* attribute, and an optional attribute is present or absent according to one
\* oracle decision: its test draws once from the oracle (while the oracle
\* has bytes left)
C13_OptionalByOneDecision ==
  [][ /\ ReturnsRecordLiteral => RequiredNames(Top.ty) \subseteq MapKeys(Top.map)
      /\ AtOptionalAttribute /\ ulen > 0 => ulen' = ulen - 1 ]_vars

\* C13 (amended): a record literal holds a key for every required attribute;
\* the test of an optional attribute takes exactly one oracle decision and
\* generates the attribute or skips it, except in the value and
\* attribute-value generators when the name is already a key, where it
\* generates the attribute and takes no decision
C13_RequiredPresentOptionalDecided ==
  [][ /\ ReturnsRecordLiteral =>
           /\ RequiredNames(Top.ty) \subseteq MapKeys(Top.map)
           /\ \A k \in RequiredNames(Top.ty) : EntryOf(Top.map, k).origin = "declared"
      /\ AtOptionalAttribute =>
           /\ Top.fn \in RecordLiteralGenerators
           /\ NextIns.body[2].fn \in OptionalNames(Top.ty)
           /\ Len(stack') = Len(stack) /\ unknown_pool' = unknown_pool
           /\ IF AlreadyInserted
              THEN /\ ulen' = ulen
                   /\ stack'[Len(stack)].todo = NextIns.body \o Tail(Top.todo)
              ELSE /\ ulen' = Consume(ulen)
                   /\ stack'[Len(stack)].todo \in
                        {NextIns.body \o Tail(Top.todo), Tail(Top.todo)} ]_vars

\* a literal of the open record type Meta that holds an additional attribute
\* and the required attribute, the optional one having been skipped
C13_Witness ==
  /\ ReturnsRecordLiteral /\ Top.ty = <<"RecDecl", "Meta">>
  /\ "name" \in MapKeys(Top.map) /\ "age" \notin MapKeys(Top.map)
  /\ \E i \in DOMAIN Top.map : Top.map[i].origin = "additional"


(***************************************************************************)
(* C14.  Name collisions in the record literal of                          *)
(* generate_expr_for_schematype.                                           *)
(***************************************************************************)
DeclaredNames(sty) == { a.name : a \in AttributesOf(sty) }

\* C14: in the record literal generate_expr_for_schematype builds for a
\* record type with additional attributes, every key that names a declared
\* attribute holds the expression generated for the declared type (a
\* synthetic attribute of the same name has been overwritten, the declared
\* attribute having been generated whatever the coin said)
C14_DeclaredKeysKeepDeclaredType ==
  ReturnsRecordLiteral /\ Top.fn = "generate_expr_for_schematype"
    /\ AdditionalAttributes(Top.ty) =>
      \A k \in DeclaredNames(Top.ty) \cap MapKeys(Top.map) :
        EntryOf(Top.map, k).origin = "declared"


(***************************************************************************)
(* C15.  Name collisions in the records of the value generators.           *)
(***************************************************************************)
RecordValueGenerators ==
  {"generate_attr_value_for_schematype", "generate_value_for_schematype"}

\* C15: in the record generate_attr_value_for_schematype or
\* generate_value_for_schematype builds for a record type with additional
\* attributes, every key that names a declared attribute holds the value
\* generated for the declared type; an optional declared attribute whose name
\* is already a key is generated without a coin flip; the additional
\* attributes are all inserted before the first declared one
C15_DeclaredOverwriteAdditional ==
  [][ /\ ReturnsRecordLiteral /\ Top.fn \in RecordValueGenerators
           /\ AdditionalAttributes(Top.ty) =>
             \A k \in DeclaredNames(Top.ty) \cap MapKeys(Top.map) :
               EntryOf(Top.map, k).origin = "declared"
      /\ AtOptionalAttribute /\ Top.fn \in RecordValueGenerators
           /\ NextIns.body[2].fn \in MapKeys(Top.map) =>
             /\ ulen' = ulen
             /\ Len(stack') = Len(stack)
             /\ stack'[Len(stack)].todo = NextIns.body \o Tail(Top.todo)
             /\ stack'[Len(stack)].todo[1].op = "call"
             /\ stack'[Len(stack)].todo[1].fn = Top.fn
             /\ stack'[Len(stack)].todo[3].x = "declared"
      /\ Running /\ Top.fn \in RecordValueGenerators /\ NextIns.op = "insert"
           /\ NextIns.x = "additional" =>
             \A i \in DOMAIN Top.map : Top.map[i].origin = "additional" ]_vars

\* the test of the optional attribute age of Meta, reached with age already
\* inserted as an additional attribute and oracle bytes left
C15_Witness ==
  /\ AtOptionalAttribute /\ Top.fn \in RecordValueGenerators
  /\ Top.ty = <<"RecDecl", "Meta">> /\ ulen > 0
  /\ NextIns.body[2].fn = "age"
  /\ \E i \in DOMAIN Top.map : Top.map[i] = [key |-> "age", origin |-> "additional"]


(***************************************************************************)
(* C16.  References to common types are looked through.                    *)
(***************************************************************************)
\* what a reference stands for: the definition of the common type of that
\* name, else (EntityOrCommon only) the entity type of that name
ResolutionTarget(sty) ==
  IF sty[2] \in DOMAIN CommonTypes THEN CommonTypes[sty[2]] ELSE <<"Entity", sty[2]>>

Resolvable(sty) ==
  /\ sty # <<>> /\ sty[1] \in {"CommonTypeRef", "EntityOrCommon"}
  /\ sty[1] = "CommonTypeRef" => sty[2] \in DOMAIN CommonTypes

\* frame f is a call of a schema-type-directed generator on a reference that
\* resolves
ResolvingFrame(f) == f.fn \in SchematypeGenerators /\ Resolvable(f.ty)

\* C16: a schema-type-directed generator called on a reference that resolves
\* calls itself on what the reference stands for, with the same max_depth,
\* without drawing from the oracle or touching the pool, and returns what
\* that call returns, value or error
C16_ResolutionTransparent ==
  [][ /\ Running /\ ResolvingFrame(Top) /\ NextIns.op = "enter" =>
           /\ ulen' = ulen /\ unknown_pool' = unknown_pool /\ Len(stack') = Len(stack)
           /\ stack'[Len(stack)].todo =
                <<Call(Top.fn, ResolutionTarget(Top.ty), Top.d), RetLast>>
      /\ Running /\ ResolvingFrame(Top) /\ NextIns.op = "call" =>
           /\ ulen' = ulen /\ unknown_pool' = unknown_pool
           /\ stack'[Len(stack')] = Frame(Top.fn, ResolutionTarget(Top.ty), Top.d)
           /\ stack'[Len(stack)].todo = <<RetLast>>
      /\ Running /\ Len(stack) >= 2 /\ ResolvingFrame(stack[Len(stack) - 1])
           /\ NextIns.op \in {"ret", "fail"} =>
             LET v == IF NextIns.op = "ret" THEN BuildNode(Top, NextIns) ELSE Err(NextIns.x)
                 caller == stack'[Len(stack) - 1]
             IN /\ ulen' = ulen /\ Len(stack') = Len(stack) - 1
                /\ IF v.ok THEN /\ caller.todo = <<RetLast>>
                                /\ caller.last.kind = v.kind /\ caller.acc = v.has
                   ELSE caller.todo = <<Fail(v.err)>>
      /\ Running /\ ResolvingFrame(Top) /\ NextIns.op = "ret" =>
           /\ NextIns = RetLast /\ ulen' = ulen
           /\ Len(stack) = 1 => result' = Ok(Top.last.kind, Top.acc)
      /\ Running /\ ResolvingFrame(Top) /\ NextIns.op = "fail" /\ Len(stack) = 1 =>
           result' = Err(NextIns.x) ]_vars

\* a record value returned for EntityOrCommon{Meta}, Meta being a common type
C16_Witness ==
  /\ Done /\ entry.ty = <<"EntityOrCommon", "Meta">> /\ entry.d >= 1
  /\ entry.fn = "generate_value_for_schematype"
  /\ result.ok /\ result.kind = "record"

(***************************************************************************)
(* C17.  References to undefined common types.                             *)
(***************************************************************************)
\* the recoverable error kinds the generators return (Err(Error::..))
RecoverableErrors ==
  {"TooDeep", "EmptyChoose", "ExtensionsDisabled", "LikeDisabled", "IncorrectFormat"}

UndefinedReference(sty) ==
  sty # <<>> /\ sty[1] = "CommonTypeRef" /\ sty[2] \notin DOMAIN CommonTypes

\* C17: a schema-type-directed generator called on a CommonTypeRef the schema
\* does not define faults at once (no oracle draw, no production, no call)
\* with a fault that is none of the recoverable errors, and the fault ends
\* the outermost call; called on an EntityOrCommon whose name is no common
\* type it goes on as for the entity type of that name and raises no fault
\* of its own
C17_UndefinedCommonTypeFaults ==
  [][ /\ Running /\ Top.fn \in SchematypeGenerators /\ UndefinedReference(Top.ty)
           /\ NextIns.op = "enter" =>
             /\ ulen' = ulen /\ unknown_pool' = unknown_pool /\ Len(stack') = Len(stack)
             /\ stack'[Len(stack)].todo = <<Fail(UndefinedCommonType)>>
      /\ Running /\ NextIns = Fail(UndefinedCommonType) =>
           /\ UndefinedCommonType \in HardFaults \ RecoverableErrors
           /\ ulen' = ulen
           /\ IF Len(stack) = 1 THEN result' = Err(UndefinedCommonType)
              ELSE stack'[Len(stack) - 1].todo = <<Fail(UndefinedCommonType)>>
      /\ Running /\ Top.fn \in SchematypeGenerators /\ NextIns.op = "enter"
           /\ Top.ty[1] = "EntityOrCommon" /\ Top.ty[2] \notin DOMAIN CommonTypes =>
             /\ ulen' = ulen
             /\ stack'[Len(stack)].todo = <<Call(Top.fn, <<"Entity", Top.ty[2]>>, Top.d), RetLast>>
      /\ entry.ty = <<"EntityOrCommon", "User">>
           /\ entry.fn # "generate_expr_for_schematype" => result'.err \notin HardFaults ]_vars

\* the outermost call, made on a CommonTypeRef the schema does not define,
\* has ended in the fault
C17_Witness ==
  /\ Done /\ entry.ty = <<"CommonTypeRef", "Missing">>
  /\ result = Err(UndefinedCommonType)


(***************************************************************************)
(* C18, C19.  Extension-typed values of the value generators.              *)
(***************************************************************************)
\* the outermost call was made for an extension type
ExtensionTarget ==
  entry.ty \in ExtensionTypes
              \cup { <<"Extension", n>> : n \in {"ipaddr", "decimal", "datetime", "duration"} }

\* C18: with extensions enabled, each of the four value generators called
\* for an extension type returns a call of an extension constructor when
\* max_depth >= 1 (the oracle not exhausted), and fails with TooDeep when
\* max_depth = 0
C18_ExtensionValuesAreConstructorCalls ==
  Done /\ settings.enable_extensions /\ entry.fn \in ValueGenerators /\ ExtensionTarget =>
    /\ entry.d >= 1 /\ ulen > 0 => result.ok /\ result.kind = "ext"
    /\ entry.d = 0 => result = Err("TooDeep")

\* C19: with extensions disabled, each of the two attribute-value generators
\* called for an extension type (with max_depth >= 1, so that depth is not
\* what fails) fails with the recoverable error ExtensionsDisabled (no
\* constructor call, no hard fault)
C19_AttrValueExtensionsDisabled ==
  Done /\ ~settings.enable_extensions /\ ExtensionTarget /\ entry.d >= 1
    /\ entry.fn \in {"generate_attr_value_for_type", "generate_attr_value_for_schematype"} =>
      result = Err("ExtensionsDisabled")

(***************************************************************************)
(* C20.  FeatureDisabled errors only when the feature is off.              *)
(***************************************************************************)
\* C20: a call of generate_expr, generate_expr_for_type,
\* generate_expr_for_schematype or generate_value_for_type does not return
\* ExtensionsDisabled when extensions are enabled, nor LikeDisabled when like
\* is enabled
C20_FeatureDisabledOnlyWhenOff ==
  Done /\ entry.fn \in ExpressionGenerators \cup {"generate_value_for_type"} =>
    /\ settings.enable_extensions => result # Err("ExtensionsDisabled")
    /\ settings.enable_like => result # Err("LikeDisabled")


(***************************************************************************)
(* C21.  Generation is a function of the oracle's bytes.                   *)
(***************************************************************************)
\* everything a step can change
Outcome == <<stack, ulen, unknown_pool, result, unk_drew, placeholders>>

LiteralKinds == {"lit_bool", "lit_long", "lit_string", "lit_uid", "set", "record", "ext"}

PrimitiveTypes == {<<"Bool">>, <<"Long">>, <<"String">>, <<"Entity">>}

\* C22: in a call of a value or attribute-value generator every frame on the
\* call stack is one of these generators, every node a frame builds is a
\* literal, a UID literal, a set or record literal or a call of an extension
\* constructor (so no variable, operator, attribute access or placeholder
\* occurs anywhere in the result), and the pool is not touched; for a Bool,
\* Long, String or Entity target the type-directed generators make no call
\* at all and return the literal of that type, at every max_depth
C22_ValueGeneratorsLiteralOnly ==
  entry.fn \in ValueGenerators =>
    /\ \A i \in DOMAIN stack : stack[i].fn \in ValueGenerators
    /\ Running /\ NextIns.op = "ret" =>
         /\ BuildNode(Top, NextIns).ok => BuildNode(Top, NextIns).kind \in LiteralKinds
         /\ NextIns.x = "ext" => NextIns.fn \in KnownConstructors
    /\ Running /\ NextIns.op = "node" => NextIns.fn \in KnownConstructors
    /\ unknown_pool = <<>> /\ placeholders = <<>>
    /\ Done /\ result.ok => result.kind \in LiteralKinds /\ result.has \subseteq {"ext"}
    /\ entry.fn \in {"generate_value_for_type", "generate_attr_value_for_type"}
         /\ entry.ty \in PrimitiveTypes =>
           /\ Len(stack) <= 1
           /\ Done => result.ok /\ result.kind \in ValueKinds(entry.ty) /\ result.has = {}

\* an attribute value for Set<IPAddr> has returned as a set that holds
\* constructor calls
C22_Witness ==
  /\ Done /\ entry.fn = "generate_attr_value_for_type" /\ entry.ty = set_of(<<"IPAddr">>)
  /\ result.ok /\ result.kind = "set" /\ "ext" \in result.has


(***************************************************************************)
(* C23.  How many draws fire the unknown decision.                         *)
(***************************************************************************)
\* C23 (as stated): with enable_unknowns on and configured max depth M,
\* exactly M - max_depth of the M + 1 values of the draw make
\* should_generate_unknown return true, and at max_depth = M it never does
C23_FiresForBudgetSpentDraws ==
  settings.enable_unknowns /\ Done =>
    /\ Cardinality(FiringDraws(entry.d)) = settings.max_depth - entry.d
    /\ entry.d = settings.max_depth => result.kind = "false"

\* C23 (amended): with enable_unknowns on and configured max depth M,
\* should_generate_unknown(max_depth) returns true exactly for the draws
\* 0 .. M - max_depth, that is for M - max_depth + 1 of the M + 1 values; at
\* max_depth = M it returns true for the draw 0 and for no other
C23_FiresForBudgetSpentPlusOneDraws ==
  settings.enable_unknowns /\ Done =>
    /\ result.ok /\ result.kind \in {"true", "false"}
    /\ result.kind = "true" <=> entry.choice \in 0..(settings.max_depth - entry.d)
    /\ Cardinality(0..(settings.max_depth - entry.d)) = settings.max_depth - entry.d + 1
    /\ entry.d = settings.max_depth => (result.kind = "true" <=> entry.choice = 0)

\* the decision has fired at the root budget, on a drawn 0
C23_Witness ==
  /\ settings.enable_unknowns /\ Done /\ settings.max_depth >= 1
  /\ entry.d = settings.max_depth /\ entry.choice = 0 /\ unk_drew
  /\ result.kind = "true"


(***************************************************************************)
(* C24.  Terminal productions on a short oracle.                           *)
(***************************************************************************)
\* the frame on top is at the type dispatch of generate_expr_for_type
\* (reached for an extension type only with extensions enabled) or at one of
\* the three dispatches generate_expr_for_schematype has of its own
AtTypeDispatch ==
  /\ Running /\ NextIns.op = "enter"
  /\ \/ /\ Top.fn = "generate_expr_for_type"
        /\ Top.ty \in ExtensionTypes => settings.enable_extensions
     \/ /\ Top.fn = "generate_expr_for_schematype"
        /\ Top.ty[1] \in {"Set", "RecDecl", "Rec1", "Entity"}

\* what the terminal production of the type on top leaves the frame to do
IsTerminalTodo(todo) ==
  CASE Top.ty \in {<<"Bool">>} -> todo = <<Ret("lit_bool")>>
    [] Top.ty \in {<<"Long">>} -> todo = <<Ret("lit_long")>>
    [] Top.ty \in {<<"String">>} -> todo = <<Ret("lit_string")>>
    [] Top.ty[1] = "Set" -> todo = <<Ret("set")>>
    [] Top.ty[1] = "Entity" -> todo = <<Ret("var")>>
    [] Top.ty[1] \in {"Record", "RecDecl", "Rec1"} -> todo = <<Fail("TooDeep")>>
    [] OTHER -> /\ \A k \in DOMAIN todo : todo[k].op \in {"draw", "node", "ret"}
                /\ todo[Len(todo)].op = "ret" /\ todo[Len(todo)].x = "ext"
                /\ todo[Len(todo)].fn \in KnownConstructors

TakesEqualityMismatch ==
  /\ Running /\ NextIns.op = "enter" /\ Top.fn = "generate_expr_for_type"
  /\ Top.ty = <<"Bool">> /\ Top.d >= 1 /\ ~settings.enable_unknowns
  /\ ulen >= TerminalThreshold /\ ulen' = ulen - 3
  /\ Len(stack') = Len(stack) /\ Len(stack'[Len(stack)].todo) = 3
  /\ stack'[Len(stack)].todo[1].op = "call" /\ stack'[Len(stack)].todo[2].op = "call"
  /\ stack'[Len(stack)].todo[3] = Ret("binop")

\* C25: the production `== where types do not match` of the Bool menu
\* always generates its two operands for two different types
C25_MismatchOperandsDiffer ==
  [][ TakesEqualityMismatch =>
        /\ stack'[Len(stack)].todo[1].fn = "generate_expr_for_type"
        /\ stack'[Len(stack)].todo[2].fn = "generate_expr_for_type"
        /\ stack'[Len(stack)].todo[1].ty # stack'[Len(stack)].todo[2].ty ]_vars


(***************************************************************************)
(* C26.  Where TooDeep is raised.                                          *)
(***************************************************************************)
\* this step enters a call whose own code returns Err(TooDeep) (the error
\* is raised here, not passed on from a sub-call)
RaisesTooDeep ==
  /\ Running /\ NextIns.op = "enter" /\ Len(stack') = Len(stack)
  /\ stack'[Len(stack)].todo = <<Fail("TooDeep")>>

\* C26: TooDeep is raised only by a call entered with an exhausted budget
\* (max_depth == 0, or fewer oracle bytes left than the terminal threshold):
\* no production returns TooDeep directly while budget remains
C26_TooDeepOnlyWhenExhausted ==
  [][ RaisesTooDeep => Top.d = 0 \/ ulen' < TerminalThreshold ]_vars


(***************************************************************************)
(* C27.  Target types of the productions of a schema-typed Set.            *)
(***************************************************************************)
\* this step is the dispatch of generate_expr_for_schematype on a
\* Set { element } type that selects a production (not the empty set)
SelectsSchemaSetProduction ==
  /\ Running /\ NextIns.op = "enter" /\ Top.fn = "generate_expr_for_schematype"
  /\ Top.ty # <<>> /\ Top.ty[1] = "Set" /\ Top.d >= 1
  /\ Len(stack') = Len(stack) /\ stack'[Len(stack)].todo # <<>>

\* the production selected by this step, as the calls it leaves to do
SelectedPlan == stack'[Len(stack)].todo

\* C27: for a schema type Set { element } the if-then-else production of
\* generate_expr_for_schematype generates both arms for the Set type itself,
\* and the extension-call production asks for a function returning the Set
\* type, not its element type
C27_SetProductionsTargetTheSet ==
  [][ SelectsSchemaSetProduction =>
        /\ SelectedPlan[Len(SelectedPlan)] = Ret("ite") =>
             /\ Len(SelectedPlan) = 4
             /\ SelectedPlan[2] = Call("generate_expr_for_schematype", Top.ty, Top.d - 1)
             /\ SelectedPlan[3] = Call("generate_expr_for_schematype", Top.ty, Top.d - 1)
        /\ SelectedPlan[1].fn = "generate_ext_func_call_for_schematype" =>
             SelectedPlan[1] = Call("generate_ext_func_call_for_schematype", Top.ty, Top.d - 1) ]_vars


(***************************************************************************)
(* C28.  The base of the getAttr production of generate_expr.              *)
(***************************************************************************)
\* this step builds the get_attr node of the getAttr production of
\* generate_expr over the base expression generated last
BuildsGetAttr ==
  Running /\ Top.fn = "generate_expr" /\ NextIns = RetWrapped("get_attr")

\* the expressions a call has returned or is building
ExprsInFlight == { stack[i].acc : i \in DOMAIN stack } \cup { result.has }

\* C28: the base of the get_attr node built by generate_expr is never a bare
\* string literal: a string literal s is replaced by the record {s: s}, any
\* other base is used unchanged
C28_GetAttrBaseNeverStringLiteral ==
  /\ \A has \in ExprsInFlight : "strbase" \notin has
  /\ BuildsGetAttr =>
       /\ GetAttrBase(Top.last) # "lit_string"
       /\ Top.last.kind = "lit_string" => GetAttrBase(Top.last) = "record"
       /\ Top.last.kind # "lit_string" => GetAttrBase(Top.last) = Top.last.kind

\* generate_expr is about to build get_attr over a base generated as a string
\* literal
C28_Witness ==
  BuildsGetAttr /\ Top.last.ok /\ Top.last.kind = "lit_string"


(***************************************************************************)
(* C29.  The depth budget never underflows.                                *)
(***************************************************************************)
\* the budgets (values of `max_depth` or `max_depth - 1`) of the calls a
\* production has still to make, those of its loop and optional bodies
\* included
RECURSIVE PendingBudgets(_)
PendingBudgets(todo) ==
  IF todo = <<>> THEN {}
  ELSE LET ins == Head(todo) IN
       (IF ins.op \in {"call", "callT"} THEN {ins.d} ELSE {})
       \cup PendingBudgets(ins.body) \cup PendingBudgets(Tail(todo))

\* C29: in every call reachable from a top-level call whose max_depth is at
\* most settings.max_depth, the budget handed to a sub-call (max_depth or
\* max_depth - 1) is never negative and never above the caller's, and
\* settings.max_depth - max_depth in should_generate_unknown is never
\* negative
C29_BudgetNeverUnderflows ==
  entry.d <= settings.max_depth =>
    \A i \in DOMAIN stack :
      /\ stack[i].d >= 0
      /\ settings.max_depth - stack[i].d >= 0
      /\ i > 1 => stack[i].d <= stack[i - 1].d
      /\ \A b \in PendingBudgets(stack[i].todo) : b >= 0 /\ b <= stack[i].d

\* a call running with budget 0, three levels below a top-level call made
\* with the whole configured budget, with unknowns enabled
C29_Witness ==
  /\ entry.d = settings.max_depth /\ settings.enable_unknowns
  /\ Len(stack) >= 3 /\ Top.d = 0 /\ stack[1].d = settings.max_depth
  /\ Top.fn = "generate_expr_for_type" /\ NextIns.op = "enter"


(***************************************************************************)
(* C30.  generate_expr_for_type at max_depth == 0 with unknowns enabled.   *)
(***************************************************************************)
\* this step enters generate_expr_for_type with max_depth == 0 while
\* unknowns are enabled
EntersTypedAtDepthZero ==
  /\ Running /\ NextIns.op = "enter" /\ Top.fn = "generate_expr_for_type"
  /\ Top.d = 0 /\ settings.enable_unknowns

\* the error generate_value_for_type returns (for the extension types, by
\* its catch-all arm); a Record at max_depth == 0 is the empty record
ValueErrorsAtDepthZero == {"ExtensionsDisabled"}

\* C30: with unknowns enabled every call of generate_expr_for_type with
\* max_depth == 0 takes the unknown short-circuit, whatever is drawn: it
\* generates a value, allocates it and returns the placeholder, so the call
\* yields an unknown or the error of generate_value_for_type, never a
\* depth-0 terminal production
C30_DepthZeroAlwaysUnknown ==
  [][ /\ EntersTypedAtDepthZero =>
           /\ Len(stack') = Len(stack)
           /\ stack'[Len(stack)].todo
                = <<Call("generate_value_for_type", Top.ty, 0), Alloc, Ret("unknown")>>
      /\ ( /\ Done' /\ entry.fn = "generate_expr_for_type" /\ entry.d = 0
           /\ settings.enable_unknowns )
         => \/ result'.ok /\ result'.kind = "unknown"
            \/ ~result'.ok /\ result'.err \in ValueErrorsAtDepthZero ]_vars

\* a nested call of generate_expr_for_type entered with max_depth == 0 and
\* oracle bytes left has returned a placeholder to its caller's if-then-else
C30_Witness ==
  /\ settings.enable_unknowns /\ Len(stack) = 1 /\ entry.d = 1
  /\ entry.fn = "generate_expr_for_type" /\ entry.ty = <<"Long">>
  /\ Top.todo = <<Ret("ite")>> /\ Top.acc = {"unknown"} /\ ulen > 0

====
